---- MODULE Spec2Model ----
(***************************************************************************)
(* A model of ProcessSupervisor (src/src/index.ts): the registry of        *)
(* managed resources, the start/stop state machine with its timeout race,  *)
(* shutdownAll, unregister, and the signal / uncaught-error handlers.      *)
(*                                                                         *)
(* The program runs on one JavaScript thread.  A step of the model is one  *)
(* synchronous run: an API call up to its first await, or the continuation *)
(* of an await once the awaited promise has settled.  The start and stop   *)
(* callbacks, the hooks, the timers and the process events belong to the   *)
(* environment: what they do is chosen nondeterministically.               *)
(***************************************************************************)
EXTENDS Integers, Sequences, FiniteSets, TLC

\* ------------------------------------------------------------------------
\* Bounds of the model
\* ------------------------------------------------------------------------

\* record objects that are no longer registered while an operation on them is
\* still in flight
MaxDetached == 1

\* shutdownAll calls of the surrounding program in flight at a time
MaxManual == 1

\* runs of the fault handler in flight at a time, counting the runs that the
\* leaked timers armed at the time will cause
MaxFaults == 1

\* per record, stop callbacks that returned a promise and have not settled yet
MaxAbandoned == 1

\* the length of the signal lists given to the constructor
MaxSignals == 2

\* calls of handleSignals after the one of the constructor
MaxInstalls == 1

\* ------------------------------------------------------------------------
\* Inputs
\* ------------------------------------------------------------------------

\* resource ids the surrounding program uses
Ids == {"a", "b"}

\* opaque instances a start callback may produce
Values == {"v1", "v2"}

\* the instance of a record that has not been started
Null == "null"

\* config.timeout as given to register: absent, or a number of ms
NoTimeout == -1

TimeoutOptions == {NoTimeout, 0}

\* ------------------------------------------------------------------------
\* JavaScript values that can be thrown
\* ------------------------------------------------------------------------

Err(m) == [type |-> "Error", v |-> m]

Str(s) == [type |-> "string", v |-> <<s>>]

JsNull == [type |-> "null", v |-> <<>>]

Undefined == [type |-> "undefined", v |-> <<>>]

\* what a callback or a hook may throw or reject with
Throwables == {Err(<<"boom">>), Str("string error")}

\* error instanceof Error
IsError(x) == x.type = "Error"

\* String(error), for the values that are not Errors
String(x) ==
  CASE x.type = "string" -> x.v
    [] x.type = "null" -> <<"null">>
    [] x.type = "undefined" -> <<"undefined">>
    [] OTHER -> <<"Error">> \o x.v

\* a mutant of normalizeError: the thrown value is stored as it is
normalizeErrorRaw(x) == x

\* error instanceof Error ? error : new Error(String(error))
normalizeError(x) == IF IsError(x) THEN x ELSE Err(String(x))

\* ------------------------------------------------------------------------
\* ProcessState
\* ------------------------------------------------------------------------

FAILED == "failed"

IDLE == "idle"

RUNNING == "running"

STARTING == "starting"

STOPPED == "stopped"

STOPPING == "stopping"

ProcessState == {FAILED, IDLE, RUNNING, STARTING, STOPPED, STOPPING}

\* ------------------------------------------------------------------------
\* Messages
\* ------------------------------------------------------------------------

AlreadyRegistered(i) == Err(<<"Resource with id", i, "is already registered">>)

\* a mutant of NotRegistered: the fault does not name the id
NotRegisteredNoId(i) == Err(<<"Resource is not registered">>)

NotRegistered(i) == Err(<<"Resource with id", i, "is not registered">>)

\* a mutant of TimeoutError: the message does not carry the record's timeout
TimeoutErrorNoDuration(i, t) == Err(<<"Resource", i, "failed to stop within", 5000, "ms">>)

TimeoutError(i, t) == Err(<<"Resource", i, "failed to stop within", t, "ms">>)

WarnAlready(i, s) == <<"Resource", i, "is already", s>>

WarnStillStopping(i) == <<"Resource", i, "is still stopping, cannot start">>

WarnStillStarting(i) == <<"Resource", i, "is still starting, cannot stop">>

\* ------------------------------------------------------------------------
\* Constructor options
\* ------------------------------------------------------------------------

\* options.defaultTimeout ?? 5000
DefaultTimeoutFallback == 5000

\* handleSignals: "omitted", "true", "false" or "array" (then signals is the list)
Options(hs, sigs, hue, onSig, onErr, dt) ==
  [handleSignals |-> hs, signals |-> sigs, handleUncaughtErrors |-> hue,
   onSignal |-> onSig, onError |-> onErr, defaultTimeout |-> dt]

\* new ProcessSupervisor(): both triggers, no hooks
OptionsDefault == Options("omitted", <<>>, "omitted", FALSE, FALSE, NoTimeout)

\* no trigger
OptionsManual == Options("false", <<>>, "false", FALSE, FALSE, NoTimeout)

\* the fault trigger alone, with its hook and a default timeout
OptionsFaults == Options("false", <<>>, "true", FALSE, TRUE, 250)

\* the signal trigger alone, on the default signals
OptionsInstall == Options("true", <<>>, "false", FALSE, FALSE, NoTimeout)

\* the signal trigger alone, on a custom signal list, with its hook
OptionsSignals == Options("array", <<"SIGUSR2">>, "false", TRUE, FALSE, NoTimeout)

\* the lists of distinct signal names of length MaxSignals at most: a configured
\* set of signals, written as the array the option takes
SignalLists(names) ==
  {l \in UNION {[1..n -> names] : n \in 0..MaxSignals} :
     \A j, k \in 1..Len(l) : j # k => l[j] # l[k]}

\* every way of toggling the two triggers, without hooks
OptionSpace(names) ==
  {Options(hs, <<>>, hue, FALSE, FALSE, NoTimeout) :
     hs \in {"omitted", "true", "false"}, hue \in {"omitted", "true", "false"}}
  \cup {Options("array", l, hue, FALSE, FALSE, NoTimeout) :
          l \in SignalLists(names), hue \in {"omitted", "true", "false"}}

\* ------------------------------------------------------------------------
\* State
\* ------------------------------------------------------------------------

VARIABLES
  env,             \* what the surrounding program and its callbacks do (see Scenarios)
  options,         \* this.options, as given to the constructor
  defaultTimeout,  \* this.defaultTimeout
  isShuttingDown,  \* this.isShuttingDown
  resources,       \* this.resources: the Map, as the sequence of its records in insertion order
  recs,            \* the ManagedResource objects ever created; a handle is an index
  pend,            \* per record: the callbacks awaited, the timers armed
  sds,             \* the shutdownAll calls and handler runs in flight
  listeners,       \* process.on: the number of handlers installed per event
  exits,           \* the codes process.exit was called with; the process ends at the first
  last             \* what the last step did: callbacks invoked, console output, results

vars == <<env, options, defaultTimeout, isShuttingDown, resources, recs, pend, sds,
          listeners, exits, last>>

Handles == 1..Len(recs)

\* interface ManagedResource; config.start and config.stop are the environment's
NewResource(i, t) ==
  [id |-> i, timeout |-> t, instance |-> Null, state |-> IDLE, error |-> Undefined]

\* what is awaited for a record:
\*   start, stop: "none", "returned" (the callback returned a plain value: the await
\*                resumes in a microtask) or "promise" (it returned a pending promise)
\*   val:         the value a start callback returned synchronously
\*   waiter:      who awaits the stop: "caller", "unregister" or "shutdown"
\*   timer:       the timeout timer of the awaited stop is armed
\*   abandoned:   stop callbacks still running whose stop has timed out
\*   leaked:      armed timers of stops that have already settled
NoPend ==
  [start |-> "none", val |-> Null, stop |-> "none", waiter |-> "none",
   timer |-> FALSE, abandoned |-> 0, leaked |-> 0]

\* what a callback does when invoked
Outcome(k, x, v) == [kind |-> k, x |-> x, val |-> v]

\* what the callbacks of the scenario do: throw synchronously, return a plain value,
\* or return a promise that is still pending
StartOutcomes ==
  {oc \in {Outcome("throw", x, Null) : x \in env.throwables}
           \cup {Outcome("return", Undefined, v) : v \in env.values}
           \cup {Outcome("promise", Undefined, Null)} : oc.kind \in env.startKinds}

StopOutcomes ==
  {oc \in {Outcome("throw", x, Null) : x \in env.throwables}
           \cup {Outcome("return", Undefined, Null), Outcome("promise", Undefined, Null)} :
     oc.kind \in env.stopKinds}

\* a step that invoked nothing, printed nothing and settled nothing:
\*   op, id, h:  the operation, the id (or event name) and the record it concerns
\*               (for shutdownAll and the handlers: the place of the run in sds)
\*   invoked:    the start and stop callbacks invoked, <<name, handle, argument>>
\*   hook:       the hook invoked ("none", "onSignal", "onError")
\*   hookArg:    the argument the hook was invoked with
\*   arg:        for register, the timeout of the config (NoTimeout when omitted)
\*   waiter:     for a stop that settled, who awaited it ("none", "manual",
\*               "shutdown", "unregister")
\*   after:      for a handler's shutdownAll that returned, how the handler's hook
\*               had ended ("none", "fulfilled", "rejected")
\*   warns, errs, logs: what console.warn, console.error and console.log printed
\*   st, reason: how the operation's promise settled in this step, and the fault
\*   val:        the value the start callback produced in this step
\*   trail:      the assignments to resource.state, in order, <<handle, state>>
\*   ret:        the value shutdownAll returned ("none", "true", "false")
Quiet(op, i, h) ==
  [op |-> op, id |-> i, h |-> h, invoked |-> <<>>, hook |-> "none", hookArg |-> Undefined,
   after |-> "none", waiter |-> "none", arg |-> NoTimeout, warns |-> <<>>,
   errs |-> <<>>, logs |-> <<>>, st |-> "none", reason |-> Undefined, val |-> Null,
   trail |-> <<>>, ret |-> "none"]

\* ------------------------------------------------------------------------
\* Read accessors
\* ------------------------------------------------------------------------

has(i) == \E k \in 1..Len(resources) : recs[resources[k]].id = i

size == Len(resources)

\* the handle of the record registered under i, 0 when there is none
Lookup(i) ==
  IF has(i)
    THEN resources[CHOOSE k \in 1..Len(resources) : recs[resources[k]].id = i]
    ELSE 0

\* this.resources.get(id)?.state
getState(i) == IF has(i) THEN recs[Lookup(i)].state ELSE "undefined"

\* (resource.instance as T) ?? null; "throws" when the id is not registered
getInstance(i) == IF has(i) THEN recs[Lookup(i)].instance ELSE "throws"

getAllStates == [k \in 1..Len(resources) |-> <<recs[resources[k]].id, recs[resources[k]].state>>]

\* this.resources.delete(id)
MapDelete(m, i) == SelectSeq(m, LAMBDA h : recs[h].id # i)

\* ------------------------------------------------------------------------
\* start and stop, up to their first await
\* ------------------------------------------------------------------------

\* a run of start or stop: the heap, what is awaited, and what the run has done
World(r, p) ==
  [recs |-> r, pend |-> p, invoked |-> <<>>, warns |-> <<>>, trail |-> <<>>,
   st |-> "none", reason |-> Undefined]

Fulfilled(w) == [w EXCEPT !.st = "fulfilled"]

Rejected(w, x) == [w EXCEPT !.st = "rejected", !.reason = x]

Warned(w, msg) == [w EXCEPT !.st = "fulfilled", !.warns = Append(@, msg)]

\* a mutant of startAlready: a record that has failed is not started again
startAlreadyOrFailed(s) == s \in {STARTING, RUNNING, FAILED}

\* a mutant of startAlready: a start is accepted while another start is in flight
startAlreadyRunningOnly(s) == s \in {RUNNING}

\* [STARTING, RUNNING].includes(resource.state)
startAlready(s) == s \in {STARTING, RUNNING}

\* a mutant of startStillStopping: a start is accepted while a stop is in flight
startStillStoppingNever(s) == FALSE

\* resource.state === STOPPING
startStillStopping(s) == s = STOPPING

\* a mutant of startBegin: a new start clears the error of the last failure
startBeginClearsError(r) == [r EXCEPT !.state = STARTING, !.error = Undefined]

\* a mutant of startBegin: the state is left as it was while the callback runs
startBeginNoState(r) == r

\* resource.state = STARTING
startBegin(r) == [r EXCEPT !.state = STARTING]

\* a mutant of startFulfilled: the instance is not stored
startFulfilledNoInstance(r, v) == [r EXCEPT !.state = RUNNING]

\* resource.instance = <awaited value>; resource.state = RUNNING
startFulfilled(r, v) == [r EXCEPT !.instance = v, !.state = RUNNING]

\* catch (error): resource.state = FAILED; resource.error = normalized
startCaught(r, x) == [r EXCEPT !.state = FAILED, !.error = normalizeError(x)]

\* async start(id), up to the await of the callback's result
start(w, i, oc) ==
  LET h == Lookup(i) IN
  IF h = 0 THEN Rejected(w, NotRegistered(i))
  ELSE LET r == w.recs[h] IN
    IF startAlready(r.state) THEN Warned(w, WarnAlready(i, r.state))
    ELSE IF startStillStopping(r.state) THEN Warned(w, WarnStillStopping(i))
    ELSE LET called == [w EXCEPT !.invoked = Append(@, <<"start", h, Null>>)] IN
      IF oc.kind = "throw"
        THEN [called EXCEPT !.recs[h] = startCaught(startBegin(r), oc.x),
                            !.trail = @ \o <<<<h, startBegin(r).state>>,
                                              <<h, startCaught(startBegin(r), oc.x).state>>>>,
                            !.st = "rejected", !.reason = oc.x]
        ELSE [called EXCEPT !.recs[h] = startBegin(r),
                            !.trail = Append(@, <<h, startBegin(r).state>>),
                            !.pend[h].start = IF oc.kind = "return" THEN "returned" ELSE "promise",
                            !.pend[h].val = oc.val,
                            !.st = "pending"]

\* a mutant of stopAlready: a stop is accepted while another stop is in flight
stopAlreadyStoppedOnly(s) == s \in {STOPPED}

\* [STOPPING, STOPPED].includes(resource.state)
stopAlready(s) == s \in {STOPPING, STOPPED}

\* a mutant of stopStillStarting: a stop is accepted while a start is in flight
stopStillStartingNever(s) == FALSE

\* resource.state === STARTING
stopStillStarting(s) == s = STARTING

\* resource.state = STOPPING
stopBegin(r) == [r EXCEPT !.state = STOPPING]

\* a mutant of stopFulfilled: the record is left in STOPPING
stopFulfilledNoState(r) == r

\* resource.state = STOPPED
stopFulfilled(r) == [r EXCEPT !.state = STOPPED]

\* a mutant of stopCaught: a failed stop drops the instance
stopCaughtNoInstance(r, x) ==
  [r EXCEPT !.state = FAILED, !.error = normalizeError(x), !.instance = Null]

\* a mutant of stopCaught: the fault is stored but the state is left as it was
stopCaughtNoState(r, x) == [r EXCEPT !.error = normalizeError(x)]

\* catch (error): resource.state = FAILED; resource.error = normalized
stopCaught(r, x) == [r EXCEPT !.state = FAILED, !.error = normalizeError(x)]

\* a mutant of setTimeout: no timer is armed
setTimeoutNever(t) == FALSE

\* timeoutId = setTimeout(() => reject(...), resource.config.timeout): a timer is armed
setTimeout(t) == TRUE

\* async stop(id), up to the await of the race; waiter is who awaits this stop.
\* The timer is armed before the callback is invoked; when the callback throws
\* synchronously the race is never built, so no .finally clears the timer.
stop(w, i, oc, waiter) ==
  LET h == Lookup(i) IN
  IF h = 0 THEN Rejected(w, NotRegistered(i))
  ELSE LET r == w.recs[h] IN
    IF r.state = IDLE THEN Fulfilled(w)
    ELSE IF stopAlready(r.state) THEN Warned(w, WarnAlready(i, r.state))
    ELSE IF stopStillStarting(r.state) THEN Warned(w, WarnStillStarting(i))
    ELSE LET called == [w EXCEPT !.invoked = Append(@, <<"stop", h, r.instance>>)] IN
      IF oc.kind = "throw"
        THEN [called EXCEPT !.recs[h] = stopCaught(stopBegin(r), oc.x),
                            !.trail = @ \o <<<<h, stopBegin(r).state>>,
                                              <<h, stopCaught(stopBegin(r), oc.x).state>>>>,
                            !.pend[h].leaked = @ + (IF setTimeout(r.timeout) THEN 1 ELSE 0),
                            !.st = "rejected", !.reason = oc.x]
        ELSE [called EXCEPT !.recs[h] = stopBegin(r),
                            !.trail = Append(@, <<h, stopBegin(r).state>>),
                            !.pend[h].stop = IF oc.kind = "return" THEN "returned" ELSE "promise",
                            !.pend[h].waiter = waiter,
                            !.pend[h].timer = setTimeout(r.timeout),
                            !.st = "pending"]

\* ------------------------------------------------------------------------
\* Constructor
\* ------------------------------------------------------------------------

ProcessEvents == {"SIGINT", "SIGTERM", "SIGUSR2", "uncaughtException", "unhandledRejection"}

Signals == {"SIGINT", "SIGTERM", "SIGUSR2"}

Count(seq, e) == Cardinality({k \in 1..Len(seq) : seq[k] = e})

\* signals.forEach(signal => process.on(signal, ...))
handleSignals(l, signals) == [e \in ProcessEvents |-> l[e] + Count(signals, e)]

\* errorConfig.forEach(({ event }) => process.on(event, ...))
handleUncaughtErrors(l) ==
  [e \in ProcessEvents |->
     IF e \in {"uncaughtException", "unhandledRejection"} THEN l[e] + 1 ELSE l[e]]

\* a mutant of signalsOf: the list given is ignored
signalsOfDefault(o) == <<"SIGINT", "SIGTERM">>

\* Array.isArray(options.handleSignals) ? options.handleSignals : ['SIGINT', 'SIGTERM']
signalsOf(o) == IF o.handleSignals = "array" THEN o.signals ELSE <<"SIGINT", "SIGTERM">>

\* the handlers the constructor installs
constructor(o) ==
  LET none == [e \in ProcessEvents |-> 0]
      l1 == IF o.handleSignals # "false" THEN handleSignals(none, signalsOf(o)) ELSE none
  IN IF o.handleUncaughtErrors # "false" THEN handleUncaughtErrors(l1) ELSE l1

\* options.defaultTimeout ?? 5000
resolveDefaultTimeout(o) ==
  IF o.defaultTimeout = NoTimeout THEN DefaultTimeoutFallback ELSE o.defaultTimeout

\* what the surrounding program does with one supervisor:
\*   ids, timeouts:  the ids it registers and the timeouts it configures
\*   detached:       the records it has in flight besides the registered ones
\*   api:            the methods it calls
\*   startKinds, stopKinds, hookKinds: how its callbacks and hooks behave
\*   values, throwables: what its callbacks resolve with and fault with
\*   options:        what it passes to the constructor
Scenario(name, ids, detached, api, sk, pk, hk, values, throwables, timeouts, o) ==
  [name |-> name, ids |-> ids, detached |-> detached, api |-> api,
   startKinds |-> sk, stopKinds |-> pk, hookKinds |-> hk,
   values |-> values, throwables |-> throwables, timeouts |-> timeouts, options |-> o]

Api == {"register", "unregister", "start", "stop", "shutdownAll"}

Kinds == {"throw", "return", "promise"}

Scenarios ==
  { \* a supervisor constructed with each combination of the trigger options, and
    \* nothing registered
    Scenario("options", {}, 0, {}, {}, {}, {}, {}, {Err(<<"boom">>)}, {NoTimeout}, o) :
      o \in OptionSpace(Signals) }
  \cup
  { \* one resource, callbacks of every kind, every value, fault and timeout
    Scenario("one", {"a"}, 0, Api, Kinds, Kinds, {}, Values, Throwables,
             TimeoutOptions, OptionsManual),
    \* two resources stopped together
    Scenario("two", {"a", "b"}, 0, {"register", "start", "shutdownAll"},
             {"return"}, {"throw", "promise"}, {}, {"v1"}, {Err(<<"boom">>)}, {NoTimeout},
             OptionsManual),
    \* an id unregistered and registered again while its callbacks are pending
    Scenario("again", {"a"}, MaxDetached, {"register", "unregister", "start", "stop"},
             {"promise"}, {"promise"}, {}, {"v1"}, {Err(<<"boom">>)}, {NoTimeout},
             OptionsManual),
    \* the default triggers around one resource
    Scenario("triggers", {"a"}, 0, {"register", "start", "stop"},
             {"promise"}, Kinds, {}, {"v1"}, {Err(<<"boom">>)}, {NoTimeout},
             OptionsDefault),
    \* the hooks
    Scenario("onError", {"a"}, 0, {"register", "start"},
             {"return"}, {"promise"}, Kinds, {"v1"}, Throwables, {NoTimeout},
             OptionsFaults),
    Scenario("onSignal", {"a"}, 0, {"register", "start"},
             {"return"}, {"promise"}, Kinds, {"v1"}, Throwables, {NoTimeout},
             OptionsSignals),
    \* the signal trigger installed once more after construction
    Scenario("install", {"a"}, 0, {"register", "start", "handleSignals"},
             {"return"}, {"promise"}, {}, {"v1"}, {Err(<<"boom">>)}, {NoTimeout},
             OptionsInstall) }

Init ==
  /\ env \in Scenarios
  /\ options = env.options
  /\ defaultTimeout = resolveDefaultTimeout(options)
  /\ isShuttingDown = FALSE
  /\ resources = <<>>
  /\ recs = <<>>
  /\ pend = <<>>
  /\ sds = <<>>
  /\ listeners = constructor(options)
  /\ exits = <<>>
  /\ last = Quiet("constructor", "", 0)

\* process.exit has not been called: the process runs
Alive == exits = <<>>

\* a record object nothing refers to any more: it is not in the Map and no
\* continuation, callback or timer of it is pending
Free(h) == (\A k \in 1..Len(resources) : resources[k] # h) /\ pend[h] = NoPend

\* what is left of a record object once it is unreachable
Collected ==
  [id |-> "", timeout |-> 0, instance |-> Null, state |-> "collected", error |-> Undefined]

\* the heap with the unreachable record objects collected
Heap == [h \in Handles |-> IF Free(h) THEN Collected ELSE recs[h]]

\* where a new record object is put: a free slot, or a new one
Alloc == IF \E h \in Handles : Free(h)
           THEN CHOOSE h \in Handles : Free(h) /\ \A g \in Handles : Free(g) => h <= g
           ELSE Len(recs) + 1

Put(seq, h, e) == IF h > Len(seq) THEN Append(seq, e) ELSE [seq EXCEPT ![h] = e]

\* the environment stays within the bounds of the model: p and s are pend and sds
\* after a step that invoked callbacks or started a shutdown
WithinBounds(p, s) ==
  /\ \A h \in 1..Len(p) :
       p[h].abandoned + (IF p[h].stop = "promise" THEN 1 ELSE 0) <= MaxAbandoned
  /\ Cardinality({k \in 1..Len(s) : s[k].kind = "manual"}) <= MaxManual
  /\ LET RECURSIVE Leaked(_)
         Leaked(h) == IF h = 0 THEN 0 ELSE p[h].leaked + Leaked(h - 1)
     IN Cardinality({k \in 1..Len(s) : s[k].kind = "fault"}) + Leaked(Len(p)) <= MaxFaults

\* ------------------------------------------------------------------------
\* register, start, stop
\* ------------------------------------------------------------------------

\* a mutant of resolveTimeout: || instead of ??, so that 0 becomes the default
resolveTimeoutOr(t) == IF t = NoTimeout \/ t = 0 THEN defaultTimeout ELSE t

\* config.timeout ?? this.defaultTimeout
resolveTimeout(t) == IF t = NoTimeout THEN defaultTimeout ELSE t

\* a mutant of registerRefuses: a duplicate id is not noticed
registerRefusesNever(i) == FALSE

\* if (this.resources.has(id)) throw
registerRefuses(i) == has(i)

register(i, t) ==
  /\ Alive
  /\ IF registerRefuses(i)
       THEN /\ last' = [Quiet("register", i, Lookup(i)) EXCEPT
                          !.st = "rejected", !.reason = AlreadyRegistered(i),
                          !.arg = t]
            /\ UNCHANGED <<resources, recs, pend>>
       ELSE /\ Alloc <= Cardinality(env.ids) + env.detached
            /\ recs' = Put(Heap, Alloc, NewResource(i, resolveTimeout(t)))
            /\ pend' = Put(pend, Alloc, NoPend)
            /\ resources' = Append(resources, Alloc)
            /\ last' = [Quiet("register", i, Alloc) EXCEPT !.st = "fulfilled", !.arg = t]
  /\ UNCHANGED <<env, options, defaultTimeout, isShuttingDown, sds, listeners, exits>>

\* what a run of start or stop leaves in last
Report(op, i, w) ==
  [Quiet(op, i, Lookup(i)) EXCEPT
     !.invoked = w.invoked, !.warns = w.warns, !.trail = w.trail, !.st = w.st,
     !.reason = w.reason]

Start(i) ==
  /\ Alive
  /\ \E oc \in StartOutcomes :
       LET w == start(World(Heap, pend), i, oc) IN
       /\ recs' = w.recs
       /\ pend' = w.pend
       /\ last' = Report("start", i, w)
  /\ UNCHANGED <<env, options, defaultTimeout, isShuttingDown, resources, sds, listeners,
                 exits>>

Stop(i) ==
  /\ Alive
  /\ \E oc \in StopOutcomes :
       LET w == stop(World(Heap, pend), i, oc, "caller") IN
       /\ WithinBounds(w.pend, sds)
       /\ recs' = w.recs
       /\ pend' = w.pend
       /\ last' = Report("stop", i, w)
  /\ UNCHANGED <<env, options, defaultTimeout, isShuttingDown, resources, sds, listeners,
                 exits>>

\* ------------------------------------------------------------------------
\* The awaited start callback settles
\* ------------------------------------------------------------------------

StartSettled(h, op, r, st, reason, v) ==
  /\ recs' = [Heap EXCEPT ![h] = r]
  /\ pend' = [pend EXCEPT ![h].start = "none", ![h].val = Null]
  /\ last' = [Quiet(op, recs[h].id, h) EXCEPT
                !.st = st, !.reason = reason, !.val = v, !.trail = <<<<h, r.state>>>>]
  /\ UNCHANGED <<env, options, defaultTimeout, isShuttingDown, resources, sds, listeners,
                 exits>>

\* the callback returned a plain value: the await resumes with it
StartContinues(h) ==
  /\ Alive
  /\ pend[h].start = "returned"
  /\ StartSettled(h, "startReturned", startFulfilled(recs[h], pend[h].val), "fulfilled",
                  Undefined, pend[h].val)

\* the promise the callback returned resolves with v
StartResolves(h, v) ==
  /\ Alive
  /\ pend[h].start = "promise"
  /\ StartSettled(h, "startResolved", startFulfilled(recs[h], v), "fulfilled", Undefined, v)

\* the promise the callback returned rejects with x
StartRejects(h, x) ==
  /\ Alive
  /\ pend[h].start = "promise"
  /\ StartSettled(h, "startRejected", startCaught(recs[h], x), "rejected", x, Null)

\* ------------------------------------------------------------------------
\* shutdownAll calls and handler runs in flight
\* ------------------------------------------------------------------------

\* one shutdownAll call, or one run of a signal or fault handler:
\*   kind:    "manual" (shutdownAll called by the program), "signal" or "fault"
\*   phase:   "hook" while the handler awaits its hook, then "stops"
\*   hook:    how the awaited hook returned ("returned" or "promise")
\*   sig, fault: the signal name or the fault the handler was called with
\*   ids:     resourceIds, the snapshot of the keys
\*   results: per id, the settlement of its stop promise and the record it awaits
Inst(kind, phase, hook, sig, fault, ids, results) ==
  [kind |-> kind, phase |-> phase, hook |-> hook, sig |-> sig, fault |-> fault,
   ids |-> ids, results |-> results]

Result(st, reason, h) == [st |-> st, reason |-> reason, h |-> h]

\* a mutant of allSettled: Promise.race, the first settlement completes the wait
anySettled(results) ==
  results = <<>> \/ \E j \in 1..Len(results) : results[j].st # "pending"

\* await Promise.allSettled(stopPromises)
allSettled(results) == \A j \in 1..Len(results) : results[j].st # "pending"

\* Array.from(this.resources.keys())
Keys == [k \in 1..Len(resources) |-> recs[resources[k]].id]

RECURSIVE stopEach(_, _, _, _)
\* resourceIds.map(id => this.stop(id)): the stops are issued one after the other in
\* one synchronous run; ocs[k] is what the stop callback of ids[k] does if invoked
stopEach(acc, ids, ocs, k) ==
  IF k > Len(ids) THEN acc
  ELSE LET w == stop(acc.w, ids[k], ocs[k], "shutdown")
           res == Result(w.st, w.reason, IF w.st = "pending" THEN Lookup(ids[k]) ELSE 0)
       IN stopEach([w |-> w, results |-> Append(acc.results, res)], ids, ocs, k + 1)

\* shutdownAll up to its await, from the pending table p0
shutdownAllCall(ocs, p0) == stopEach([w |-> World(Heap, p0), results |-> <<>>], Keys, ocs, 1)

RemoveAt(seq, k) == [j \in 1..(Len(seq) - 1) |-> IF j < k THEN seq[j] ELSE seq[j + 1]]

\* a callback, a timer or a process event runs only once the microtask queue is
\* empty: no await of an already settled value is still to resume
MicrotasksPending ==
  \/ \E h \in Handles : pend[h].start = "returned" \/ pend[h].stop = "returned"
  \/ \E k \in 1..Len(sds) :
       \/ sds[k].phase = "hook" /\ sds[k].hook = "returned"
       \/ sds[k].phase = "stops" /\ allSettled(sds[k].results)

ShutdownAll ==
  /\ Alive
  /\ \E ocs \in [1..Len(resources) -> StopOutcomes] :
       LET run == shutdownAllCall(ocs, pend)
           s1 == Append(sds, Inst("manual", "stops", "none", "", Undefined, Keys, run.results))
       IN
       /\ WithinBounds(run.w.pend, s1)
       /\ recs' = run.w.recs
       /\ pend' = run.w.pend
       /\ sds' = s1
       /\ last' = [Quiet("shutdownAll", "", Len(sds) + 1) EXCEPT
                     !.invoked = run.w.invoked, !.warns = run.w.warns,
                     !.trail = run.w.trail, !.st = "pending"]
  /\ UNCHANGED <<env, options, defaultTimeout, isShuttingDown, resources, listeners, exits>>

\* console.error(`Failed to stop resource "${id}":`, result.reason), per rejected result
FailureLog(inst) ==
  LET rejected == SelectSeq([j \in 1..Len(inst.results) |-> j],
                            LAMBDA j : inst.results[j].st = "rejected")
  IN [n \in 1..Len(rejected) |->
        <<"Failed to stop resource", inst.ids[rejected[n]], inst.results[rejected[n]].reason>>]

\* a mutant of hasErrors: the result does not depend on the settlements
hasErrorsNever(inst) == FALSE

\* hasErrors: some result is rejected
hasErrors(inst) == \E j \in 1..Len(inst.results) : inst.results[j].st = "rejected"

\* a mutant of signalExitCode
signalExitCodeZero(failed) == 0

\* process.exit(hasErrors ? 1 : 0)
signalExitCode(failed) == IF failed THEN 1 ELSE 0

\* a mutant of faultExitCode: the code follows the result of shutdownAll
faultExitCodeByResult(failed) == IF failed THEN 1 ELSE 0

\* process.exit(1)
faultExitCode(failed) == 1

\* shutdownAll resumes after allSettled, logs the failures and returns; a handler that
\* awaited it then calls process.exit
ShutdownAllReturns(k) ==
  /\ Alive
  /\ sds[k].phase = "stops"
  /\ allSettled(sds[k].results)
  /\ sds' = RemoveAt(sds, k)
  /\ last' = [Quiet("shutdownAllReturned", sds[k].kind, k) EXCEPT
                !.errs = FailureLog(sds[k]),
                !.after = sds[k].hook,
                !.st = "fulfilled",
                !.ret = IF hasErrors(sds[k]) THEN "true" ELSE "false"]
  /\ exits' = CASE sds[k].kind = "signal" -> Append(exits, signalExitCode(hasErrors(sds[k])))
                [] sds[k].kind = "fault" -> Append(exits, faultExitCode(hasErrors(sds[k])))
                [] OTHER -> exits
  /\ UNCHANGED <<env, options, defaultTimeout, isShuttingDown, resources, recs, pend, listeners>>

\* ------------------------------------------------------------------------
\* The awaited stop settles: callback first, or timer first
\* ------------------------------------------------------------------------

\* a mutant of disarm: the timer is left armed after the race has settled
disarmNever(p) == [p EXCEPT !.timer = FALSE, !.leaked = @ + 1]

\* .finally(() => clearTimeout(timeoutId))
disarm(p) == [p EXCEPT !.timer = FALSE]

\* the stop promise of record h settles: its awaiter resumes
NotifyShutdowns(s, h, st, reason) ==
  [k \in 1..Len(s) |->
     [s[k] EXCEPT !.results =
        [j \in 1..Len(s[k].results) |->
           IF s[k].results[j].st = "pending" /\ s[k].results[j].h = h
             THEN Result(st, reason, h)
             ELSE s[k].results[j]]]]

StopSettled(h, op, r, p, st, reason) ==
  /\ recs' = [Heap EXCEPT ![h] = r]
  /\ pend' = [pend EXCEPT ![h] = disarm([p EXCEPT !.stop = "none", !.waiter = "none"])]
  /\ last' = [Quiet(op, recs[h].id, h) EXCEPT
                !.st = st, !.reason = reason, !.trail = <<<<h, r.state>>>>,
                !.waiter = pend[h].waiter]
  /\ sds' = IF pend[h].waiter = "shutdown" THEN NotifyShutdowns(sds, h, st, reason) ELSE sds
  \* unregister resumes after its await: this.resources.delete(id)
  /\ resources' = IF pend[h].waiter = "unregister" /\ st = "fulfilled"
                    THEN MapDelete(resources, recs[h].id)
                    ELSE resources
  /\ UNCHANGED <<env, options, defaultTimeout, isShuttingDown, listeners, exits>>

\* the callback returned a plain value: the race resolves in a microtask
StopContinues(h) ==
  /\ Alive
  /\ pend[h].stop = "returned"
  /\ StopSettled(h, "stopReturned", stopFulfilled(recs[h]), pend[h], "fulfilled", Undefined)

\* the promise the callback returned resolves before the timer fires
StopResolves(h) ==
  /\ Alive
  /\ pend[h].stop = "promise"
  /\ StopSettled(h, "stopResolved", stopFulfilled(recs[h]), pend[h], "fulfilled", Undefined)

\* the promise the callback returned rejects before the timer fires
StopRejects(h, x) ==
  /\ Alive
  /\ pend[h].stop = "promise"
  /\ StopSettled(h, "stopRejected", stopCaught(recs[h], x), pend[h], "rejected", x)

\* the timer fires first: the race rejects with the timeout error; the callback is
\* no longer awaited but keeps running
TimerFires(h) ==
  /\ Alive
  /\ ~MicrotasksPending
  /\ pend[h].timer
  /\ pend[h].stop # "none"
  /\ LET x == TimeoutError(recs[h].id, recs[h].timeout) IN
     StopSettled(h, "stopTimedOut", stopCaught(recs[h], x),
                 [pend[h] EXCEPT !.abandoned = @ + 1], "rejected", x)

\* a mutant of raceLost: the late resolution is taken for the end of the stop
raceLostApplies(r) == [r EXCEPT !.state = STOPPED, !.instance = Null]

\* await Promise.race([config.stop(instance), timeoutPromise]) has already rejected
\* with the timeout: the settlement of config.stop's promise resumes no code of stop
raceLost(r) == r

\* a stop callback whose stop has timed out settles at last: nobody awaits it
AbandonedSettles(h) ==
  /\ Alive
  /\ pend[h].abandoned > 0
  /\ pend' = [pend EXCEPT ![h].abandoned = @ - 1]
  /\ recs' = [recs EXCEPT ![h] = raceLost(recs[h])]
  /\ last' = Quiet("abandonedSettled", recs[h].id, h)
  /\ UNCHANGED <<env, options, defaultTimeout, isShuttingDown, resources, sds, listeners,
                 exits>>

\* ------------------------------------------------------------------------
\* unregister
\* ------------------------------------------------------------------------

\* a mutant of unregisterStopsFirst: the record is deleted whatever its state
unregisterStopsNever(s) == FALSE

\* resource.state === RUNNING
unregisterStopsFirst(s) == s = RUNNING

unregister(i) ==
  /\ Alive
  /\ IF ~has(i)
       THEN /\ last' = [Quiet("unregister", i, 0) EXCEPT
                          !.st = "rejected", !.reason = NotRegistered(i)]
            /\ UNCHANGED <<resources, recs, pend>>
       ELSE IF unregisterStopsFirst(recs[Lookup(i)].state)
         THEN \E oc \in StopOutcomes :
                LET w == stop(World(Heap, pend), i, oc, "unregister") IN
                /\ WithinBounds(w.pend, sds)
                /\ recs' = w.recs
                /\ pend' = w.pend
                /\ last' = Report("unregister", i, w)
                /\ resources' = IF w.st = "fulfilled" THEN MapDelete(resources, i) ELSE resources
         ELSE /\ resources' = MapDelete(resources, i)
              /\ last' = [Quiet("unregister", i, Lookup(i)) EXCEPT !.st = "fulfilled"]
              /\ UNCHANGED <<recs, pend>>
  /\ UNCHANGED <<env, options, defaultTimeout, isShuttingDown, sds, listeners, exits>>

\* ------------------------------------------------------------------------
\* Signal and fault handlers
\* ------------------------------------------------------------------------

HookOutcomes ==
  {oc \in {Outcome("throw", x, Null) : x \in env.throwables}
           \cup {Outcome("return", Undefined, Null), Outcome("promise", Undefined, Null)} :
     oc.kind \in env.hookKinds}

\* console.log(`\nReceived ${signal}, shutting down gracefully...`)
ReceivedLog(sig) == <<"Received", sig, "shutting down gracefully">>

\* a mutant of HookErrorLog: the fault of the hook is swallowed without its value
HookErrorLogNoValue(hookName, x) == <<"Error in hook", hookName>>

\* console.error('Error in onSignal hook:', e) / console.error('Error in onError hook:', e)
HookErrorLog(hookName, x) == <<"Error in hook", hookName, x>>

\* console.error(logPrefix, error)
FaultLog(ev, x) ==
  <<IF ev = "uncaughtException" THEN "Unexpected error:" ELSE "Unhandled promise:", x>>

HookName(kind) == IF kind = "signal" THEN "onSignal" ELSE "onError"

\* a mutant of HookArg: the hook is invoked without an argument
HookArgNone(kind, sig, fault) == Undefined

\* this.options.onSignal(signal) / this.options.onError(error)
HookArg(kind, sig, fault) == IF kind = "signal" THEN Str(sig) ELSE fault

\* a handler from the point where its hook is done with: the received-signal log,
\* then shutdownAll up to its await. k is the place of the run in sds, p0 is pend
\* as the handler finds it and hs is how the hook ended ("none" without a hook,
\* "fulfilled" or "rejected")
Proceed(op, name, kind, sig, fault, hookName, hs, errs0, k, p0) ==
  \E ocs \in [1..Len(resources) -> StopOutcomes] :
    LET run == shutdownAllCall(ocs, p0)
        s1 == Put(sds, k, Inst(kind, "stops", hs, sig, fault, Keys, run.results))
    IN
    /\ WithinBounds(run.w.pend, s1)
    /\ recs' = run.w.recs
    /\ pend' = run.w.pend
    /\ sds' = s1
    /\ last' = [Quiet(op, name, k) EXCEPT
                  !.hook = hookName,
                  !.hookArg = IF hookName = "none" THEN Undefined
                                ELSE HookArg(kind, sig, fault),
                  !.invoked = run.w.invoked,
                  !.warns = run.w.warns,
                  !.trail = run.w.trail,
                  !.errs = errs0,
                  !.logs = IF kind = "signal" THEN <<ReceivedLog(sig)>> ELSE <<>>,
                  !.st = "pending"]

\* a mutant of AwaitHook: the hook is called and not awaited
AwaitHookNot(op, name, kind, sig, fault, ho, errs0, p0) ==
  Proceed(op, name, kind, sig, fault, HookName(kind),
          IF ho.kind = "return" THEN "returned" ELSE "promise", errs0, Len(sds) + 1, p0)

\* await this.options.onSignal(signal) / await this.options.onError(error), the hook
\* having returned: the handler is suspended until the returned value has settled
AwaitHook(op, name, kind, sig, fault, ho, errs0, p0) ==
  /\ WithinBounds(p0, Append(sds, Inst(kind, "hook", "promise", sig, fault, <<>>, <<>>)))
  /\ sds' = Append(sds, Inst(kind, "hook",
                             IF ho.kind = "return" THEN "returned" ELSE "promise",
                             sig, fault, <<>>, <<>>))
  /\ recs' = recs
  /\ pend' = p0
  /\ last' = [Quiet(op, name, Len(sds) + 1) EXCEPT
                !.hook = HookName(kind),
                !.hookArg = HookArg(kind, sig, fault),
                !.errs = errs0, !.st = "pending"]

\* a handler from the call of its hook, if one is configured: a hook that throws is
\* caught and logged, a hook that returns is awaited
RunHandler(op, name, kind, sig, fault, hooked, errs0, p0) ==
  IF hooked
    THEN \E ho \in HookOutcomes :
           IF ho.kind = "throw"
             THEN Proceed(op, name, kind, sig, fault, HookName(kind), "rejected",
                          Append(errs0, HookErrorLog(HookName(kind), ho.x)),
                          Len(sds) + 1, p0)
             ELSE AwaitHook(op, name, kind, sig, fault, ho, errs0, p0)
    ELSE Proceed(op, name, kind, sig, fault, "none", "none", errs0, Len(sds) + 1, p0)

\* a mutant of latched: the latch is never seen set
latchedNever(flag) == FALSE

\* if (this.isShuttingDown) return
latched(flag) == flag

\* handleSignals(signals) called on the supervisor once more, as the constructor
\* calls it: there is no guard, each call adds a handler per signal
HandleSignalsAgain(signals) ==
  /\ Alive
  /\ \A k \in 1..Len(signals) : listeners[signals[k]] <= MaxInstalls
  /\ listeners' = handleSignals(listeners, signals)
  /\ last' = [Quiet("handleSignals", "", 0) EXCEPT !.st = "fulfilled"]
  /\ UNCHANGED <<env, options, defaultTimeout, isShuttingDown, resources, recs, pend, sds,
                 exits>>

\* process.on(signal, async () => {...}): a configured signal is delivered. Every
\* handler of the signal runs; the first one to run sets the latch before it
\* awaits anything, so a further handler of this supervisor returns at once
Signal(sig) ==
  /\ Alive
  /\ ~MicrotasksPending
  /\ listeners[sig] > 0
  /\ IF latched(isShuttingDown)
       THEN /\ last' = [Quiet("signal", sig, 0) EXCEPT !.st = "fulfilled"]
            /\ UNCHANGED <<isShuttingDown, recs, pend, sds>>
       ELSE /\ isShuttingDown' = TRUE
            /\ RunHandler("signal", sig, "signal", sig, Undefined, options.onSignal, <<>>, pend)
  /\ UNCHANGED <<env, options, defaultTimeout, resources, listeners, exits>>

\* process.on(event, async error => {...}), from console.error(logPrefix, error) on
FaultHandler(ev, x, p0) ==
  RunHandler("fault", ev, "fault", "", x, options.onError, <<FaultLog(ev, x)>>, p0)

\* an uncaught exception or an unhandled rejection of the surrounding program
Fault(ev, x) ==
  /\ Alive
  /\ ~MicrotasksPending
  /\ listeners[ev] > 0
  /\ FaultHandler(ev, x, pend)
  /\ UNCHANGED <<env, options, defaultTimeout, isShuttingDown, resources, listeners, exits>>

\* the timer of a stop whose callback threw synchronously fires: its promise rejects
\* and nothing handles the rejection. With a handler installed that is an
\* unhandledRejection event; without one the runtime ends the process with code 1
LeakedTimerFires(h) ==
  /\ Alive
  /\ ~MicrotasksPending
  /\ pend[h].leaked > 0
  /\ LET p0 == [pend EXCEPT ![h].leaked = @ - 1]
         x == TimeoutError(recs[h].id, recs[h].timeout)
     IN IF listeners["unhandledRejection"] > 0
          THEN /\ FaultHandler("unhandledRejection", x, p0)
               /\ exits' = exits
          ELSE /\ exits' = Append(exits, 1)
               /\ pend' = p0
               /\ last' = [Quiet("crash", "unhandledRejection", h) EXCEPT !.reason = x]
               /\ UNCHANGED <<recs, sds>>
  /\ UNCHANGED <<env, options, defaultTimeout, isShuttingDown, resources, listeners>>

\* the awaited hook is done with: the handler resumes
HookSettled(k, hs, errs0) ==
  /\ UNCHANGED <<env, options, defaultTimeout, isShuttingDown, resources, listeners, exits>>
  /\ Proceed("hookSettled", IF sds[k].kind = "signal" THEN sds[k].sig ELSE "fault",
             sds[k].kind, sds[k].sig, sds[k].fault, "none", hs, errs0, k, pend)

\* the hook returned a plain value
HookContinues(k) ==
  /\ Alive
  /\ sds[k].phase = "hook"
  /\ sds[k].hook = "returned"
  /\ HookSettled(k, "fulfilled", <<>>)

\* the promise the hook returned resolves
HookResolves(k) ==
  /\ Alive
  /\ sds[k].phase = "hook"
  /\ sds[k].hook = "promise"
  /\ HookSettled(k, "fulfilled", <<>>)

\* the promise the hook returned rejects with x: caught and logged
HookRejects(k, x) ==
  /\ Alive
  /\ sds[k].phase = "hook"
  /\ sds[k].hook = "promise"
  /\ HookSettled(k, "rejected", <<HookErrorLog(HookName(sds[k].kind), x)>>)

\* ------------------------------------------------------------------------
\* Specification
\* ------------------------------------------------------------------------

Register == "register" \in env.api /\ \E i \in env.ids, t \in env.timeouts : register(i, t)

Unregister == "unregister" \in env.api /\ \E i \in env.ids : unregister(i)

StartCall == "start" \in env.api /\ \E i \in env.ids : Start(i)

StopCall == "stop" \in env.api /\ \E i \in env.ids : Stop(i)

StartCallbackSettles ==
  \E h \in Handles :
    \/ StartContinues(h)
    \/ \E v \in env.values : StartResolves(h, v)
    \/ \E x \in env.throwables : StartRejects(h, x)

StopCallbackSettles ==
  \E h \in Handles :
    \/ StopContinues(h)
    \/ StopResolves(h)
    \/ \E x \in env.throwables : StopRejects(h, x)

TimeoutElapses == \E h \in Handles : TimerFires(h)

ShutdownAllCall == "shutdownAll" \in env.api /\ ShutdownAll

LateSettlement == \E h \in Handles : AbandonedSettles(h)

LeakedTimeout == \E h \in Handles : LeakedTimerFires(h)

ShutdownAllCompletes == \E k \in 1..Len(sds) : ShutdownAllReturns(k)

InstallAgain == "handleSignals" \in env.api /\ HandleSignalsAgain(signalsOf(options))

SignalEvent == \E sig \in Signals : Signal(sig)

FaultEvent ==
  \E ev \in {"uncaughtException", "unhandledRejection"}, x \in env.throwables : Fault(ev, x)

HookSettles ==
  \E k \in 1..Len(sds) :
    \/ HookContinues(k)
    \/ HookResolves(k)
    \/ \E x \in env.throwables : HookRejects(k, x)

Next ==
  \/ Register
  \/ Unregister
  \/ StartCall
  \/ StopCall
  \/ ShutdownAllCall
  \/ InstallAgain
  \/ StartCallbackSettles
  \/ StopCallbackSettles
  \/ TimeoutElapses
  \/ LateSettlement
  \/ LeakedTimeout
  \/ ShutdownAllCompletes
  \/ SignalEvent
  \/ FaultEvent
  \/ HookSettles

Spec == Init /\ [][Next]_vars

\* ------------------------------------------------------------------------
\* The state machine of one record
\* ------------------------------------------------------------------------

\* the edges the state of a record may take
Edges ==
  { <<IDLE, STARTING>>, <<STOPPED, STARTING>>, <<FAILED, STARTING>>,
    <<STARTING, RUNNING>>, <<STARTING, FAILED>>,
    <<RUNNING, STOPPING>>, <<FAILED, STOPPING>>,
    <<STOPPING, STOPPED>>, <<STOPPING, FAILED>> }

\* the assignments of a step to the state of record h, in order
Assigned(h, trail) ==
  LET mine == SelectSeq(trail, LAMBDA e : e[1] = h) IN [n \in 1..Len(mine) |-> mine[n][2]]

\* the assignments of the step lead record h from state s to state t, each of them
\* leaving the state as it is or taking an edge
Along(h, s, t, trail) ==
  LET path == <<s>> \o Assigned(h, trail) IN
  /\ path[Len(path)] = t
  /\ \A n \in 1..(Len(path) - 1) : path[n] = path[n + 1] \/ <<path[n], path[n + 1]>> \in Edges

\* C1: in every step, whatever operation or event takes it, the state of every
\* record object that is still in use (registered, or with an operation pending)
\* either stays as it is or moves along the nine edges, one edge per assignment of
\* the step; so no record returns to IDLE and none leaves RUNNING other than into
\* STOPPING.
C1_StateEdges ==
  [][\A h \in Handles : ~Free(h) => Along(h, recs[h].state, recs'[h].state, last'.trail)]_vars

\* a record that is starting again after a start that succeeded and a stop that
\* failed: it has gone IDLE, STARTING, RUNNING, STOPPING, FAILED, STARTING
C1_Witness ==
  \E k \in 1..Len(resources) :
    LET r == recs[resources[k]] IN
    r.state = STARTING /\ r.instance # Null /\ r.error # Undefined

\* ------------------------------------------------------------------------
\* Operations in flight
\* ------------------------------------------------------------------------

\* the supervisor has invoked a callback of record h and still awaits its result
InFlight(h) == pend[h].start # "none" \/ pend[h].stop # "none"

\* the record objects of id i with an operation in flight
InFlightOf(i) == {h \in Handles : recs[h].id = i /\ InFlight(h)}

\* C2: for every id, at most one start or stop operation is in flight at any time.
C2_OneInFlightPerId == \A i \in Ids : Cardinality(InFlightOf(i)) <= 1

\* ------------------------------------------------------------------------
\* shutdownAll
\* ------------------------------------------------------------------------

\* the step just taken ran shutdownAll up to its await: called by the program, or by
\* a handler whose hook is done with
CalledShutdown ==
  /\ last.op \in {"shutdownAll", "signal", "fault", "hookSettled"}
  /\ last.st = "pending"
  /\ sds[last.h].phase = "stops"

\* the step about to be taken settles the stop of record h that a shutdownAll awaits
SettlesFor(h, ops) ==
  /\ pend[h].stop # "none"
  /\ pend[h].waiter = "shutdown"
  /\ last'.op \in ops
  /\ last'.h = h

\* the step about to be taken completes the shutdownAll call sds[k]
Completes(k) == last'.op = "shutdownAllReturned" /\ sds' = RemoveAt(sds, k)

\* the error lines of a completed shutdownAll that name id i
ErrorsNaming(errs, i) == {n \in 1..Len(errs) : errs[n][2] = i}

\* C3: when shutdownAll runs, every registered record that is RUNNING has its stop
\* callback invoked exactly once, with its instance, whatever the stop callbacks of
\* the other records do; when a stop it awaits settles, that record becomes STOPPED
\* if the callback succeeded and FAILED if it faulted or timed out, and no other
\* record changes; a stop callback that throws at once leaves its record FAILED; and
\* when shutdownAll completes it has logged exactly one error for each id whose stop
\* faulted and none for the others.
C3_FaultIsolation ==
  [][/\ CalledShutdown' =>
          \A k \in 1..Len(resources) :
            LET h == resources[k] IN
            recs[h].state = RUNNING =>
              /\ Count(last'.invoked, <<"stop", h, recs[h].instance>>) = 1
              /\ Cardinality({n \in 1..Len(last'.invoked) : last'.invoked[n][2] = h}) = 1
              /\ recs'[h].state \in {STOPPING, FAILED}
              /\ recs'[h].state = FAILED <=> sds'[last'.h].results[k].st = "rejected"
     /\ \A h \in Handles :
          /\ SettlesFor(h, {"stopReturned", "stopResolved"}) => recs'[h].state = STOPPED
          /\ SettlesFor(h, {"stopRejected", "stopTimedOut"}) => recs'[h].state = FAILED
          /\ SettlesFor(h, {"stopReturned", "stopResolved", "stopRejected", "stopTimedOut"})
               => \A g \in Handles \ {h} :
                    ~Free(g) => recs'[g] = recs[g] /\ pend'[g] = pend[g]
     /\ \A k \in 1..Len(sds) :
          Completes(k) =>
            \A j \in 1..Len(sds[k].ids) :
              Cardinality(ErrorsNaming(last'.errs, sds[k].ids[j]))
                = IF sds[k].results[j].st = "rejected" THEN 1 ELSE 0]_vars

\* a shutdownAll over two resources has completed with one error logged: one
\* record is FAILED and the other STOPPED
C3_Witness ==
  /\ last.op = "shutdownAllReturned"
  /\ Len(last.errs) = 1
  /\ Len(resources) = 2
  /\ {recs[resources[1]].state, recs[resources[2]].state} = {FAILED, STOPPED}

\* C4: a shutdownAll call completes by returning, never by faulting, and it returns
\* true exactly when at least one of the stops it issued faulted or timed out; with
\* no resource registered it returns false.
C4_ShutdownAllResult ==
  [][\A k \in 1..Len(sds) :
       Completes(k) =>
         /\ last'.st = "fulfilled"
         /\ last'.ret \in {"true", "false"}
         /\ last'.ret = "true"
              <=> \E j \in 1..Len(sds[k].results) : sds[k].results[j].st = "rejected"
         /\ sds[k].ids = <<>> => last'.ret = "false"]_vars

\* a shutdownAll has returned true after a stop it issued timed out
C4_Witness ==
  /\ last.op = "shutdownAllReturned"
  /\ last.ret = "true"
  /\ \E n \in 1..Len(last.errs) :
       last.errs[n][3] = TimeoutError(last.errs[n][2], DefaultTimeoutFallback)

Slots == UNION {1..(Cardinality(sc.ids) + sc.detached) : sc \in Scenarios}

\* the shutdown runs a scenario can have in flight: the calls of the program, the
\* runs of the fault handler and the one run of the signal handler
RunsOf(sc) ==
  (IF "shutdownAll" \in sc.api THEN MaxManual ELSE 0)
    + (IF sc.options.handleUncaughtErrors # "false" THEN MaxFaults ELSE 0)
    + (IF sc.options.handleSignals # "false" THEN 1 ELSE 0)

\* the places shutdown runs can take in the scenarios
Places == UNION {1..RunsOf(sc) : sc \in Scenarios}

\* a program that calls the supervisor from the tasks of the event loop (timers,
\* I/O, event handlers), each call once the microtasks of the task before have
\* run: such a program cannot keep the microtask queue filled for ever, which would
\* starve every timer of the process
ProgramCall ==
  /\ ~MicrotasksPending
  /\ Register \/ Unregister \/ StartCall \/ StopCall \/ ShutdownAllCall \/ InstallAgain

LoopNext ==
  \/ ProgramCall
  \/ StartCallbackSettles
  \/ StopCallbackSettles
  \/ TimeoutElapses
  \/ LateSettlement
  \/ LeakedTimeout
  \/ ShutdownAllCompletes
  \/ SignalEvent
  \/ FaultEvent
  \/ HookSettles

\* what the event loop guarantees while the process runs: the continuation of an
\* await on a settled value is a microtask and runs; an armed timer fires once its
\* delay has elapsed, at a moment when the microtask queue is empty, which recurs.
\* Nothing makes a callback's promise settle, a signal arrive or the program call.
Fairness ==
  /\ \A h \in Slots :
       /\ WF_vars(h \in Handles /\ StartContinues(h))
       /\ WF_vars(h \in Handles /\ StopContinues(h))
       /\ SF_vars(h \in Handles /\ TimerFires(h))
  /\ \A k \in Places :
       /\ WF_vars(k <= Len(sds) /\ ShutdownAllReturns(k))
       /\ WF_vars(k <= Len(sds) /\ HookContinues(k))

FairSpec == Init /\ [][LoopNext]_vars /\ Fairness

\* shutdownAll is awaiting the stops of the run at place k
Stopping(k) == IF k <= Len(sds) THEN sds[k].phase = "stops" ELSE FALSE

\* a stop of the record at h is in flight
StopInFlight(h) == IF h \in Handles THEN pend[h].stop # "none" ELSE FALSE

\* the run at place k has completed, or an earlier run has and the runs after it
\* have moved up one place
Returned(k) == last.op = "shutdownAllReturned" /\ last.h <= k

\* C6: a stop that times out settles in the step in which its timer fires, as
\* rejected; every stop in flight settles, at the latest when its timer fires; and
\* every shutdownAll awaiting its stops completes, even when no stop callback ever
\* settles -- as long as the process runs, and given that armed timers fire.
C6_BoundedShutdown ==
  /\ [](last.op = "stopTimedOut" => last.st = "rejected" /\ pend[last.h].stop = "none")
  /\ \A h \in Slots :
       StopInFlight(h) ~> (~StopInFlight(h) \/ ~Alive)
  /\ \A k \in Places : Stopping(k) ~> (Returned(k) \/ ~Alive)

\* a shutdownAll has completed after the timer of a stop it awaited fired: the only
\* fault it logged is the timeout
C6_Witness ==
  /\ last.op = "shutdownAllReturned"
  /\ Len(last.errs) = 1
  /\ last.errs[1][3] = TimeoutError(last.errs[1][2], 0)

\* ------------------------------------------------------------------------
\* The timeout of stop
\* ------------------------------------------------------------------------

\* the timeouts the records of the scenario are registered with, resolved
ResolvedTimeouts ==
  {IF t = NoTimeout THEN resolveDefaultTimeout(env.options) ELSE t : t \in env.timeouts}

\* C7: when the timer of a stop fires before the stop callback has settled, the
\* stop faults with the error "Resource <id> failed to stop within <timeout>ms",
\* built from the id of the record and its resolved timeout; the record is FAILED
\* and holds that error.
C7_TimeoutFault ==
  last.op = "stopTimedOut" =>
    LET r == recs[last.h] IN
    /\ last.st = "rejected"
    /\ r.timeout \in ResolvedTimeouts
    /\ last.reason = Err(<<"Resource", r.id, "failed to stop within", r.timeout, "ms">>)
    /\ r.state = FAILED
    /\ r.error = last.reason

\* the stop of a started resource has timed out after the default 5000 ms
C7_Witness ==
  /\ last.op = "stopTimedOut"
  /\ recs[last.h].instance # Null
  /\ recs[last.h].timeout = DefaultTimeoutFallback
  /\ recs[last.h].error = TimeoutError(recs[last.h].id, DefaultTimeoutFallback)

\* C8: whenever no stop is in flight for a record, no timeout timer of that record
\* is armed, whichever way its last stop ended; and no timer ends the process by
\* rejecting after its stop has settled.
C8_TimerCleared ==
  /\ \A h \in Handles : pend[h].stop = "none" => ~pend[h].timer /\ pend[h].leaked = 0
  /\ last.op # "crash"

\* ------------------------------------------------------------------------
\* start
\* ------------------------------------------------------------------------

\* C9: a start of a record that is IDLE, STOPPED or FAILED invokes the start
\* callback exactly once, having set the state to STARTING first; the record is
\* STARTING while the result is awaited; and when the callback returns or resolves,
\* at once or later, the record is RUNNING and its instance is exactly the value
\* the callback produced.
C9_StartAccepted ==
  [][/\ \A i \in Ids :
          (has(i) /\ getState(i) \in {IDLE, STOPPED, FAILED}
             /\ last'.op = "start" /\ last'.id = i) =>
            LET h == Lookup(i) IN
            /\ last'.invoked = <<<<"start", h, Null>>>>
            /\ Assigned(h, last'.trail)[1] = STARTING
            /\ last'.st \in {"pending", "rejected"}
            /\ last'.st = "pending" =>
                 /\ recs'[h].state = STARTING
                 /\ pend'[h].start # "none"
                 /\ recs'[h].instance = recs[h].instance
     /\ \A h \in Handles :
          (pend[h].start # "none" /\ last'.op \in {"startReturned", "startResolved"}
             /\ last'.h = h) =>
            /\ pend[h].start = "returned" => last'.val = pend[h].val
            /\ last'.val \in env.values
            /\ last'.st = "fulfilled"
            /\ recs'[h].state = RUNNING
            /\ recs'[h].instance = last'.val]_vars

\* a record whose last stop or start failed has been started again, and the
\* promise its start callback returned has resolved with a value it now holds
C9_Witness ==
  /\ last.op = "startResolved"
  /\ recs[last.h].state = RUNNING
  /\ recs[last.h].instance = "v2"
  /\ recs[last.h].error # Undefined

\* C10: a start of a record that is STARTING, RUNNING or STOPPING returns normally
\* without invoking a callback; the record and what is awaited for it are unchanged;
\* exactly one warning is emitted, which names the id and the state.
C10_StartRefused ==
  [][\A i \in Ids :
       (has(i) /\ getState(i) \in {STARTING, RUNNING, STOPPING}
          /\ last'.op = "start" /\ last'.id = i) =>
         LET h == Lookup(i) IN
         /\ recs'[h] = recs[h]
         /\ pend'[h] = pend[h]
         /\ last'.invoked = <<>>
         /\ last'.st = "fulfilled"
         /\ last'.warns = <<IF getState(i) = STOPPING
                               THEN <<"Resource", i, "is still stopping, cannot start">>
                               ELSE <<"Resource", i, "is already", getState(i)>>>>]_vars

\* a start has been refused with a warning while the stop of the record is awaited
C10_Witness ==
  /\ last.op = "start"
  /\ Len(last.warns) = 1
  /\ last.invoked = <<>>
  /\ has(last.id)
  /\ getState(last.id) = STOPPING

\* ------------------------------------------------------------------------
\* Faults of the callbacks
\* ------------------------------------------------------------------------

\* what the record stores for a fault x: x itself when it is an Error, and a new
\* Error whose message is the value as a string otherwise
StoredFor(x) == IF x.type = "Error" THEN x ELSE [type |-> "Error", v |-> String(x)]

\* the step just taken is a start whose callback threw synchronously
StartThrew == last.op = "start" /\ last.st = "rejected" /\ last.invoked # <<>>

\* C11: when the start callback throws synchronously or its promise rejects, with
\* an Error or with any other value, the record is FAILED, its error is the fault
\* when that is an Error and otherwise a new Error carrying the stringified value,
\* start rejects with the value as it was thrown, and the callback is not invoked
\* again: it was invoked once and nothing of the start is left pending.
C11_StartFault ==
  (StartThrew \/ last.op = "startRejected") =>
    LET h == IF last.op = "start" THEN Lookup(last.id) ELSE last.h IN
    /\ last.st = "rejected"
    /\ last.reason \in env.throwables
    /\ recs[h].state = FAILED
    /\ recs[h].error = StoredFor(last.reason)
    /\ recs[h].error.type = "Error"
    /\ pend[h].start = "none"
    /\ last.invoked = IF last.op = "start" THEN <<<<"start", h, Null>>>> ELSE <<>>

\* the promise of a start callback has rejected with a string: the caller gets the
\* string and the record holds an Error made of it
C11_Witness ==
  /\ last.op = "startRejected"
  /\ last.reason = Str("string error")
  /\ recs[last.h].state = FAILED
  /\ recs[last.h].error = Err(<<"string error">>)

\* ------------------------------------------------------------------------
\* stop
\* ------------------------------------------------------------------------

\* C12: a stop of a record that is IDLE returns normally without a warning; a stop
\* of a record that is STOPPING, STOPPED or STARTING returns normally with exactly
\* one warning, which names the id and the state; in both cases no callback is
\* invoked and the record and what is awaited for it are unchanged.
C12_StopRefused ==
  [][\A i \in Ids :
       (has(i) /\ getState(i) \in {IDLE, STOPPING, STOPPED, STARTING}
          /\ last'.op = "stop" /\ last'.id = i) =>
         LET h == Lookup(i) IN
         /\ recs'[h] = recs[h]
         /\ pend'[h] = pend[h]
         /\ last'.invoked = <<>>
         /\ last'.trail = <<>>
         /\ last'.st = "fulfilled"
         /\ last'.warns =
              CASE getState(i) = IDLE -> <<>>
                [] getState(i) = STARTING ->
                     <<<<"Resource", i, "is still starting, cannot stop">>>>
                [] OTHER -> <<<<"Resource", i, "is already", getState(i)>>>>]_vars

\* a stop has been refused with a warning while the start of the record is awaited
C12_Witness ==
  /\ last.op = "stop"
  /\ Len(last.warns) = 1
  /\ last.invoked = <<>>
  /\ has(last.id)
  /\ getState(last.id) = STARTING

\* C13: a stop of a record that is RUNNING or FAILED invokes the stop callback
\* exactly once, with the instance the record holds, having set the state to
\* STOPPING first and armed the timer; the record is STOPPING while the race is
\* awaited; and when the callback returns or resolves before the timer fires the
\* stop is fulfilled and the record is STOPPED.
C13_StopAccepted ==
  [][/\ \A i \in Ids :
          (has(i) /\ getState(i) \in {RUNNING, FAILED}
             /\ last'.op = "stop" /\ last'.id = i) =>
            LET h == Lookup(i) IN
            /\ last'.invoked = <<<<"stop", h, recs[h].instance>>>>
            /\ Assigned(h, last'.trail)[1] = STOPPING
            /\ last'.st \in {"pending", "rejected"}
            /\ last'.st = "pending" =>
                 /\ recs'[h].state = STOPPING
                 /\ pend'[h].stop # "none"
                 /\ pend'[h].timer
     /\ \A h \in Handles :
          (pend[h].stop # "none" /\ last'.op \in {"stopReturned", "stopResolved"}
             /\ last'.h = h) =>
            /\ recs[h].state = STOPPING
            /\ last'.st = "fulfilled"
            /\ recs'[h].state = STOPPED
            /\ recs'[h].instance = recs[h].instance
            /\ pend'[h].stop = "none"]_vars

\* the promise returned by the stop callback of a started resource has resolved:
\* the record is STOPPED
C13_Witness ==
  /\ last.op = "stopResolved"
  /\ last.st = "fulfilled"
  /\ recs[last.h].state = STOPPED
  /\ recs[last.h].instance = "v2"

\* the step just taken is a stop, called by the program or by unregister, whose
\* callback threw synchronously
StopThrew ==
  last.op \in {"stop", "unregister"} /\ last.st = "rejected" /\ last.invoked # <<>>

\* C14: when the stop callback throws synchronously or its promise rejects before
\* the timer fires, with an Error or with any other value, the record is FAILED,
\* its error is the fault when that is an Error and otherwise a new Error carrying
\* the stringified value, and the stop rejects with the value as it was thrown.
C14_StopFault ==
  (StopThrew \/ last.op = "stopRejected") =>
    LET h == IF last.op = "stopRejected" THEN last.h ELSE Lookup(last.id) IN
    /\ last.st = "rejected"
    /\ last.reason \in env.throwables
    /\ recs[h].state = FAILED
    /\ recs[h].error = StoredFor(last.reason)
    /\ recs[h].error.type = "Error"
    /\ pend[h].stop = "none"
    /\ Len(last.invoked) = IF last.op = "stopRejected" THEN 0 ELSE 1

\* a stop callback has thrown a string synchronously: the caller of stop gets the
\* string and the record holds an Error made of it
C14_Witness ==
  /\ last.op = "stop"
  /\ last.invoked # <<>>
  /\ last.reason = Str("string error")
  /\ has(last.id)
  /\ getState(last.id) = FAILED
  /\ recs[Lookup(last.id)].error = Err(<<"string error">>)

\* ------------------------------------------------------------------------
\* C15: the first configured signal
\* ------------------------------------------------------------------------

\* the shutdownAll call sds[k] had a stop that failed
StopFailed(k) == \E j \in 1..Len(sds[k].results) : sds[k].results[j].st = "rejected"

\* the step about to be taken is the handler of a signal received with the latch open
FirstSignal == last'.op = "signal" /\ ~isShuttingDown

\* the step about to be taken resumes the handler of a signal after its hook
SignalResumes ==
  last'.op = "hookSettled" /\ IF last'.h \in 1..Len(sds) THEN sds[last'.h].kind = "signal" ELSE FALSE

\* the handler has logged the signal and called shutdownAll, in the step just taken
SignalShutsDown ==
  /\ CalledShutdown
  /\ sds[last.h].kind = "signal"
  /\ last.logs = <<ReceivedLog(sds[last.h].sig)>>

\* C15: with the signal trigger enabled, the first configured signal received has
\* the onSignal hook, when configured, invoked with the signal name; then the
\* received-signal message is logged and shutdownAll is run; process.exit is called
\* when that shutdownAll has completed and not before, with code 1 if a stop failed
\* and 0 otherwise
C15_SignalShutdown ==
  [][/\ FirstSignal =>
          /\ isShuttingDown'
          /\ last'.hook = IF options.onSignal THEN "onSignal" ELSE "none"
          /\ options.onSignal => last'.hookArg = Str(last'.id)
          /\ exits' = exits
          /\ IF sds'[last'.h].phase = "hook"
               THEN /\ options.onSignal
                    /\ sds'[last'.h].sig = last'.id
                    /\ last'.logs = <<>>
                    /\ last'.invoked = <<>>
               ELSE /\ SignalShutsDown'
                    /\ sds'[last'.h].sig = last'.id
     /\ SignalResumes => (SignalShutsDown' /\ sds'[last'.h].sig = sds[last'.h].sig /\ exits' = exits)
     /\ \A k \in 1..Len(sds) :
          (Completes(k) /\ sds[k].kind = "signal") =>
            exits' = Append(exits, IF StopFailed(k) THEN 1 ELSE 0)
     /\ (exits' # exits /\ last'.op # "crash") =>
          \E k \in 1..Len(sds) :
            /\ Completes(k)
            /\ sds[k].kind \in {"signal", "fault"}
            /\ sds[k].phase = "stops"
            /\ \A j \in 1..Len(sds[k].results) : sds[k].results[j].st # "pending"]_vars

\* a signal's shutdown has completed with a failed stop, after the hook was invoked:
\* the exit code is 1
C15_Witness ==
  /\ options.onSignal
  /\ last.op = "shutdownAllReturned"
  /\ last.id = "signal"
  /\ last.ret = "true"
  /\ exits = <<1>>

\* ------------------------------------------------------------------------
\* C16: a signal received while the latch is set
\* ------------------------------------------------------------------------

\* the shutdown of a signal is in flight: its hook is awaited or its stops are
SignalInFlight == \E k \in 1..Len(sds) : sds[k].kind = "signal"

\* C16: a configured signal received after a first one, while the shutdown of the first
\* is in flight, is ignored: no hook is invoked, nothing is logged, no stop callback is
\* invoked, no shutdownAll is called and process.exit is not called
C16_SecondSignalIgnored ==
  [][(last'.op = "signal" /\ isShuttingDown /\ SignalInFlight) =>
       /\ last'.hook = "none"
       /\ last'.logs = <<>>
       /\ last'.errs = <<>>
       /\ last'.warns = <<>>
       /\ last'.invoked = <<>>
       /\ last'.trail = <<>>
       /\ sds' = sds
       /\ recs' = recs
       /\ pend' = pend
       /\ exits' = exits
       /\ isShuttingDown']_vars

\* a signal of another name was received and ignored while the stops of the first
\* signal's shutdown are awaited
C16_Witness ==
  /\ last.op = "signal"
  /\ last.st = "fulfilled"
  /\ isShuttingDown
  /\ \E k \in 1..Len(sds) :
       /\ sds[k].kind = "signal"
       /\ sds[k].sig # last.id
       /\ sds[k].phase = "stops"
       /\ \E j \in 1..Len(sds[k].results) : sds[k].results[j].st = "pending"

\* ------------------------------------------------------------------------
\* C17: an uncaught exception or an unhandled rejection
\* ------------------------------------------------------------------------

\* the step about to be taken resumes the handler of a fault after its hook
FaultResumes ==
  last'.op = "hookSettled" /\ IF last'.h \in 1..Len(sds) THEN sds[last'.h].kind = "fault" ELSE FALSE

\* the handler of a fault has called shutdownAll, in the step just taken
FaultShutsDown ==
  /\ CalledShutdown
  /\ sds[last.h].kind = "fault"
  /\ last.logs = <<>>

\* C17: with the fault trigger enabled, the handler of an uncaught exception or an
\* unhandled rejection logs the fault, invokes the onError hook, when configured, with
\* the fault value, runs shutdownAll and, when that has completed, calls process.exit
\* with code 1 whether or not a stop failed
C17_FaultShutdown ==
  [][/\ last'.op = "fault" =>
          /\ last'.id \in {"uncaughtException", "unhandledRejection"}
          /\ listeners[last'.id] > 0
          /\ last'.errs # <<>>
          /\ last'.errs[1] = FaultLog(last'.id, sds'[last'.h].fault)
          /\ last'.hook = IF options.onError THEN "onError" ELSE "none"
          /\ options.onError => last'.hookArg = sds'[last'.h].fault
          /\ sds'[last'.h].kind = "fault"
          /\ exits' = exits
          /\ IF sds'[last'.h].phase = "hook"
               THEN /\ options.onError
                    /\ last'.invoked = <<>>
                    /\ Len(last'.errs) = 1
               ELSE FaultShutsDown'
     /\ FaultResumes => (FaultShutsDown' /\ sds'[last'.h].fault = sds[last'.h].fault /\ exits' = exits)
     /\ \A k \in 1..Len(sds) :
          (Completes(k) /\ sds[k].kind = "fault") => exits' = Append(exits, 1)]_vars

\* the shutdown of a fault has completed with every stop clean, after the hook was
\* invoked: the exit code is 1 all the same
C17_Witness ==
  /\ options.onError
  /\ last.op = "shutdownAllReturned"
  /\ last.id = "fault"
  /\ last.ret = "false"
  /\ last.errs = <<>>
  /\ \E h \in Handles : recs[h].state = STOPPED
  /\ exits = <<1>>

\* ------------------------------------------------------------------------
\* C18: a hook that throws or rejects
\* ------------------------------------------------------------------------

\* in the step just taken the hook of a handler threw or its promise rejected
HookFaulted ==
  /\ last.op \in {"signal", "fault", "hookSettled"}
  /\ IF last.h \in 1..Len(sds) THEN sds[last.h].hook = "rejected" ELSE FALSE

\* the stops the step about to be taken issues are those of a shutdownAll call: one
\* stop per registered id, the callback invoked once for a RUNNING or FAILED record
\* and not at all for another
StopsOfShutdownAll ==
  /\ sds'[last'.h].ids = Keys
  /\ Len(sds'[last'.h].results) = Len(resources)
  /\ Len(last'.invoked) = Cardinality({k \in 1..Len(resources) : recs[resources[k]].state \in {RUNNING, FAILED}})
  /\ \A k \in 1..Len(resources) :
       LET h == resources[k] IN
       IF recs[h].state \in {RUNNING, FAILED}
         THEN Count(last'.invoked, <<"stop", h, recs[h].instance>>) = 1
         ELSE /\ recs'[h] = recs[h]
              /\ pend'[h] = pend[h]
              /\ sds'[last'.h].results[k].st = "fulfilled"

\* C18: a fault thrown or rejected by the onSignal or onError hook is caught and
\* logged, and the handler goes on: shutdownAll is run as it is without the fault,
\* and when it has completed the exit code is the one of the trigger, 0 or 1 by the
\* stop results for a signal and 1 for an uncaught fault
C18_HookFaultContained ==
  [][/\ HookFaulted' =>
          LET e == last'.errs[Len(last'.errs)]
              kind == sds'[last'.h].kind
          IN /\ last'.errs # <<>>
             /\ Len(e) = 3
             /\ e[1] = "Error in hook"
             /\ e[2] = IF kind = "signal" THEN "onSignal" ELSE "onError"
             /\ e[3] \in env.throwables
             /\ Len(last'.errs) = IF last'.op = "fault" THEN 2 ELSE 1
             /\ last'.st = "pending"
             /\ sds'[last'.h].phase = "stops"
             /\ last'.logs = IF kind = "signal" THEN <<ReceivedLog(sds'[last'.h].sig)>> ELSE <<>>
             /\ StopsOfShutdownAll
             /\ exits' = exits
     /\ \A k \in 1..Len(sds) :
          (Completes(k) /\ sds[k].hook = "rejected") =>
            /\ last'.after = "rejected"
            /\ sds[k].kind \in {"signal", "fault"}
            /\ exits' = Append(exits, IF sds[k].kind = "fault" \/ StopFailed(k) THEN 1 ELSE 0)]_vars

\* the onSignal hook faulted, the stop of the running resource was awaited all the
\* same and resolved: the exit code is 0
C18_Witness ==
  /\ last.op = "shutdownAllReturned"
  /\ last.id = "signal"
  /\ last.after = "rejected"
  /\ last.ret = "false"
  /\ \E h \in Handles : ~Free(h) /\ recs[h].state = STOPPED
  /\ exits = <<0>>

\* ------------------------------------------------------------------------
\* C19: the hook is awaited before shutdownAll
\* ------------------------------------------------------------------------

\* the hook configured for a handler of the given kind, if any
Hooked(kind) == IF kind = "signal" THEN options.onSignal ELSE options.onError

\* the step about to be taken is a handler invoking its hook, which returns
HookAwaited ==
  /\ last'.op \in {"signal", "fault"}
  /\ last'.hook # "none"
  /\ IF last'.h \in 1..Len(sds') THEN sds'[last'.h].phase = "hook" ELSE FALSE

\* C19: a handler with a hook configured invokes the hook and awaits its settlement
\* before shutdownAll: while the hook has neither resolved nor rejected the handler
\* invokes no stop callback, and it calls shutdownAll in the step in which the hook
\* has settled (or in which the hook threw)
C19_HookAwaited ==
  [][/\ (last'.op \in {"signal", "fault"} /\ last'.st = "pending" /\ Hooked(sds'[last'.h].kind)) =>
          /\ last'.hook = HookName(sds'[last'.h].kind)
          /\ sds'[last'.h].phase = "stops" => sds'[last'.h].hook = "rejected"
     /\ HookAwaited =>
          /\ last'.invoked = <<>>
          /\ last'.trail = <<>>
          /\ last'.logs = <<>>
          /\ recs' = recs
          /\ \A h \in Handles : pend'[h].stop = pend[h].stop /\ pend'[h].timer = pend[h].timer
          /\ sds'[last'.h].hook \in {"returned", "promise"}
          /\ sds'[last'.h].results = <<>>
     /\ (CalledShutdown' /\ last'.op # "shutdownAll" /\ Hooked(sds'[last'.h].kind)) =>
          /\ sds'[last'.h].hook \in {"fulfilled", "rejected"}
          /\ last'.op = "hookSettled" =>
               /\ sds[last'.h].phase = "hook"
               /\ sds[last'.h].hook \in {"returned", "promise"}
               /\ last'.hook = "none"
     /\ \A k \in 1..Len(sds) :
          (sds[k].phase = "hook" /\ ~(last'.op = "hookSettled" /\ last'.h = k)) =>
            \E k2 \in 1..Len(sds') : sds'[k2] = sds[k]]_vars

\* the promise the onError hook returned has resolved and the handler has then
\* invoked the stop callback of the running resource
C19_Witness ==
  /\ last.op = "hookSettled"
  /\ last.id = "fault"
  /\ sds[last.h].hook = "fulfilled"
  /\ Len(last.invoked) = 1
  /\ last.invoked[1][1] = "stop"

\* ------------------------------------------------------------------------
\* C20: unregister
\* ------------------------------------------------------------------------

\* record h is in the registry
Registered(h) == \E k \in 1..Len(resources) : resources[k] = h

\* record h is in the registry once the step about to be taken is done
RegisteredNext(h) == \E k \in 1..Len(resources') : resources'[k] = h

\* the step about to be taken is unregister(i) finding the record of i in state s
UnregisterIn(i, s) == has(i) /\ getState(i) = s /\ last'.op = "unregister" /\ last'.id = i

\* the step about to be taken settles the stop of record h
StopSettles(h) ==
  /\ last'.op \in {"stopReturned", "stopResolved", "stopRejected", "stopTimedOut"}
  /\ last'.h = h

\* C20: unregister(id) on a RUNNING record invokes the stop callback of the record,
\* with its instance and under the timeout race of stop, and the record is removed
\* from the registry only after that stop has settled: while the stop that
\* unregister awaits is in flight the record stays registered. unregister(id) on an
\* IDLE record removes the record at once and invokes no callback
C20_Unregister ==
  [][/\ \A i \in Ids :
          UnregisterIn(i, RUNNING) =>
            LET h == Lookup(i) IN
            /\ last'.invoked = <<<<"stop", h, recs[h].instance>>>>
            /\ Assigned(h, last'.trail)[1] = STOPPING
            /\ last'.st \in {"pending", "rejected"}
            /\ RegisteredNext(h)
            /\ last'.st = "pending" =>
                 /\ recs'[h].state = STOPPING
                 /\ pend'[h].stop # "none"
                 /\ pend'[h].waiter = "unregister"
                 /\ pend'[h].timer
     /\ \A h \in Handles :
          (pend[h].stop # "none" /\ pend[h].waiter = "unregister" /\ Registered(h)) =>
            (RegisteredNext(h) \/ StopSettles(h))
     /\ \A i \in Ids :
          UnregisterIn(i, IDLE) =>
            /\ last'.invoked = <<>>
            /\ last'.trail = <<>>
            /\ last'.st = "fulfilled"
            /\ ~RegisteredNext(Lookup(i))
            /\ resources' = MapDelete(resources, i)
            /\ recs' = recs
            /\ pend' = pend]_vars

\* ------------------------------------------------------------------------
\* C21: unregister when the stop faults
\* ------------------------------------------------------------------------

\* C21: unregister(id) on a RUNNING record ends with the record removed from the
\* registry whether the stop it performs succeeds, faults or times out, and the
\* fault of the stop is the fault of unregister
C21_UnregisterAlwaysRemoves ==
  [][/\ \A i \in Ids :
          (UnregisterIn(i, RUNNING) /\ last'.st = "rejected") =>
            /\ last'.reason \in env.throwables
            /\ ~RegisteredNext(Lookup(i))
     /\ \A h \in Handles :
          (pend[h].stop # "none" /\ pend[h].waiter = "unregister" /\ StopSettles(h)) =>
            /\ last'.st \in {"fulfilled", "rejected"}
            /\ last'.st = "rejected" =>
                 last'.reason \in env.throwables \cup {TimeoutError(recs[h].id, recs[h].timeout)}
            /\ ~RegisteredNext(h)]_vars

\* ------------------------------------------------------------------------
\* C22: register on a registered id
\* ------------------------------------------------------------------------

\* the registry holds one record per registered id
UniqueIds ==
  \A k1, k2 \in 1..Len(resources) :
    k1 # k2 => /\ resources[k1] # resources[k2]
               /\ recs[resources[k1]].id # recs[resources[k2]].id

\* C22: register(id, config) on an id that is registered faults with the 'already
\* registered' error and leaves the record of the id (state, instance, error,
\* timeout), what is awaited for it and the size of the registry unchanged; in every
\* state the registry holds exactly one record per registered id
C22_RegisterDuplicate ==
  [][/\ \A i \in Ids :
          (has(i) /\ last'.op = "register" /\ last'.id = i) =>
            /\ last'.st = "rejected"
            /\ last'.reason = Err(<<"Resource with id", i, "is already registered">>)
            /\ last'.invoked = <<>>
            /\ last'.trail = <<>>
            /\ resources' = resources
            /\ Len(resources') = size
            /\ recs' = recs
            /\ pend' = pend
     /\ UniqueIds'
     /\ \A i \in Ids : Cardinality({h \in Handles : RegisteredNext(h) /\ recs'[h].id = i}) <= 1]_vars

\* a register of the id of a running resource was refused: the record still is
\* RUNNING with its instance
C22_Witness ==
  /\ last.op = "register"
  /\ last.st = "rejected"
  /\ size = 1
  /\ getState(last.id) = RUNNING
  /\ getInstance(last.id) \in Values

\* ------------------------------------------------------------------------
\* C23: an id that is not registered
\* ------------------------------------------------------------------------

\* no record of the registry carries id i
Absent(i) == \A k \in 1..Len(resources) : recs[resources[k]].id # i

\* what the accessors answer for the ids that are absent
AbsentAnswers == \A i \in Ids : Absent(i) => (getState(i) = "undefined" /\ ~has(i))

\* C23: for an id that is not in the registry start(id), stop(id) and unregister(id)
\* fault with the 'not registered' error, invoke no callback and change neither the
\* registry nor a registered record, and getState(id) is undefined and has(id) false
C23_NotRegistered ==
  [][/\ \A i \in Ids :
          (Absent(i) /\ last'.op \in {"start", "stop", "unregister"} /\ last'.id = i) =>
            /\ last'.st = "rejected"
            /\ last'.reason = Err(<<"Resource with id", i, "is not registered">>)
            /\ last'.invoked = <<>>
            /\ last'.trail = <<>>
            /\ last'.warns = <<>>
            /\ resources' = resources
            /\ pend' = pend
            /\ \A h \in Handles : Registered(h) => recs'[h] = recs[h]
     /\ AbsentAnswers
     /\ AbsentAnswers']_vars

\* start of an id that is not registered was refused while another id is registered
\* and running
C23_Witness ==
  /\ last.op = "start"
  /\ last.st = "rejected"
  /\ last.reason = NotRegistered(last.id)
  /\ Absent(last.id)
  /\ \E i \in Ids \ {last.id} : getState(i) = RUNNING

\* ------------------------------------------------------------------------
\* C24: register on a new id
\* ------------------------------------------------------------------------

\* the timeout a record gets for the timeout of its config, by the options given to
\* the constructor
ExpectedTimeout(t) ==
  IF t # NoTimeout THEN t
  ELSE IF options.defaultTimeout # NoTimeout THEN options.defaultTimeout
  ELSE 5000

\* C24: register(id, config) on a new id creates a record that is IDLE with instance
\* null and no error, whose timeout is config.timeout when that is given, 0
\* included, and otherwise the defaultTimeout of the supervisor (5000 when the
\* option is not given); it invokes no callback, leaves the other records alone and
\* increases size by exactly one
C24_RegisterNew ==
  [][\A i \in Ids :
       (Absent(i) /\ last'.op = "register" /\ last'.id = i) =>
         LET h == last'.h IN
         /\ last'.st = "fulfilled"
         /\ last'.invoked = <<>>
         /\ last'.trail = <<>>
         /\ ~Registered(h)
         /\ resources' = Append(resources, h)
         /\ Len(resources') = size + 1
         /\ recs'[h] = [id |-> i, timeout |-> ExpectedTimeout(last'.arg), instance |-> Null,
                        state |-> IDLE, error |-> Undefined]
         /\ pend'[h] = NoPend
         /\ \A g \in Handles : Registered(g) => (recs'[g] = recs[g] /\ pend'[g] = pend[g])]_vars

\* a record was registered with timeout 0 while the default is 5000: its timeout is 0
C24_Witness ==
  /\ last.op = "register"
  /\ last.st = "fulfilled"
  /\ last.arg = 0
  /\ defaultTimeout = 5000
  /\ recs[last.h].timeout = 0
  /\ recs[last.h].state = IDLE
  /\ size = 1

\* ------------------------------------------------------------------------
\* C25: the handlers the constructor installs
\* ------------------------------------------------------------------------

\* the signals the options configure
ConfiguredSignals ==
  CASE options.handleSignals = "false" -> {}
    [] options.handleSignals = "array" -> {options.signals[k] : k \in 1..Len(options.signals)}
    [] OTHER -> {"SIGINT", "SIGTERM"}

\* the fault events the options have handled
ConfiguredFaults ==
  IF options.handleUncaughtErrors = "false" THEN {}
  ELSE {"uncaughtException", "unhandledRejection"}

C26_InstalledOnce ==
  [][/\ last'.op = "handleSignals" =>
          /\ listeners' = listeners
          /\ last'.st = "rejected" \/ last'.warns # <<>>
     /\ \A e \in ProcessEvents : listeners'[e] <= 1]_vars

\* ------------------------------------------------------------------------
\* C27: no dead state
\* ------------------------------------------------------------------------

\* a start(i) is possible that invokes the start callback of record h and has the
\* record STARTING, and no start(i) is possible that does not invoke it
StartIsAccepted(i, h) ==
  /\ ENABLED (Start(i) /\ recs'[h].state = STARTING /\ pend'[h].start # "none")
  /\ ~ENABLED (Start(i) /\ (last'.invoked # <<<<"start", h, Null>>>>
                             \/ Assigned(h, last'.trail)[1] # STARTING))

\* the start awaited for record h can settle with the record RUNNING
StartCanSucceed(h) ==
  /\ pend[h].start # "none"
  /\ ENABLED ((StartContinues(h) \/ \E v \in env.values : StartResolves(h, v))
                /\ recs'[h].state = RUNNING)

\* the stop awaited for record h settles, at the latest when its timer fires, with
\* the record STOPPED or FAILED
StopCanSettle(h) ==
  /\ pend[h].stop # "none"
  /\ pend[h].stop = "promise" => pend[h].timer
  /\ ENABLED ((StopContinues(h) \/ TimerFires(h)) /\ recs'[h].state \in {STOPPED, FAILED})

\* C27: no state of a registered record is dead while the process runs. A start on
\* a record that is STOPPED or FAILED (or IDLE) is always accepted: it invokes the
\* start callback and sets the record to STARTING. A record that is STARTING can
\* become RUNNING when its callback settles, and a record that is STOPPING becomes
\* STOPPED or FAILED when its stop settles or times out: from every state RUNNING
\* can be reached by start calls and settlements
C27_NoDeadState ==
  \A i \in Ids :
    (Alive /\ has(i)) =>
      LET h == Lookup(i)
          s == recs[h].state
      IN /\ s \in {IDLE, STARTING, RUNNING, STOPPING, STOPPED, FAILED}
         /\ s \in {IDLE, STOPPED, FAILED} => StartIsAccepted(i, h)
         /\ s = STARTING => StartCanSucceed(h)
         /\ (s = STOPPING /\ ~MicrotasksPending) => StopCanSettle(h)
         /\ (s = STOPPING /\ MicrotasksPending) => pend[h].stop # "none"

\* a record that ran, failed at its stop and was started again is STARTING
C27_Witness ==
  /\ last.op = "start"
  /\ last.st = "pending"
  /\ recs[last.h].state = STARTING
  /\ recs[last.h].error # Undefined
  /\ recs[last.h].instance \in Values

\* ------------------------------------------------------------------------
\* C28: the instance is null until a start has succeeded
\* ------------------------------------------------------------------------

\* the record object at h is reachable, from the registry or from an operation in
\* flight, before the step about to be taken and after it
Lives(h) == ~Free(h) /\ (RegisteredNext(h) \/ pend'[h] # NoPend)

\* the step about to be taken completes a start of record h without fault
StartSucceeds(h) ==
  /\ last'.op \in {"startReturned", "startResolved"}
  /\ last'.h = h
  /\ last'.st = "fulfilled"

\* C28: the instance of a record is non-null only if a start of the record has
\* completed without fault. A record is registered with instance null; the instance
\* becomes non-null in the step in which a start of the record completes without
\* fault (the start callbacks returning non-null values) and in no other step, and
\* it never becomes null again; so it is null in IDLE, during the first STARTING
\* and in FAILED after a first start that faulted, and getInstance(id) is null
\* exactly for a record whose instance is null
C28_InstanceNullUntilStarted ==
  [][/\ (last'.op = "register" /\ last'.st = "fulfilled") => recs'[last'.h].instance = Null
     /\ \A h \in Handles :
          Lives(h) =>
            /\ (recs[h].instance = Null /\ recs'[h].instance # Null) =>
                 (StartSucceeds(h) /\ recs'[h].state = RUNNING)
            /\ StartSucceeds(h) => recs'[h].instance \in env.values
            /\ recs[h].instance # Null => recs'[h].instance # Null
            /\ recs'[h].state = IDLE => recs'[h].instance = Null
            /\ (recs[h].state = IDLE /\ recs'[h].state \in {STARTING, FAILED}) =>
                 recs'[h].instance = Null
            /\ (recs[h].instance = Null /\ recs[h].state = STARTING /\ recs'[h].state = FAILED) =>
                 recs'[h].instance = Null
            /\ RegisteredNext(h) => getInstance(recs[h].id)' = recs'[h].instance]_vars

\* the first start of a record has faulted: the record is FAILED and getInstance
\* returns null
C28_Witness ==
  /\ last.op = "startRejected"
  /\ recs[last.h].state = FAILED
  /\ recs[last.h].instance = Null
  /\ has(last.id)
  /\ getInstance(last.id) = Null

\* ------------------------------------------------------------------------
\* C29: what changes the instance
\* ------------------------------------------------------------------------

\* C29: the instance of a record changes only in the step in which a start of the
\* record completes without fault, and then it is the value that start produced.
\* A stop that succeeds, faults or times out, a start that faults and a start or a
\* stop that a guard refuses leave it as it was: after STOPPED or FAILED
\* getInstance still returns the instance of the last start that succeeded
C29_InstanceFrame ==
  [][\A h \in Handles :
       Lives(h) =>
         /\ recs'[h].instance # recs[h].instance => StartSucceeds(h)
         /\ StartSucceeds(h) => recs'[h].instance = last'.val
         /\ (last'.op \in {"start", "stop", "unregister", "shutdownAll", "signal", "fault",
                           "hookSettled", "startRejected", "stopReturned", "stopResolved",
                           "stopRejected", "stopTimedOut", "abandonedSettled"})
              => recs'[h].instance = recs[h].instance
         /\ (RegisteredNext(h) /\ ~StartSucceeds(h)) =>
              getInstance(recs[h].id)' = recs[h].instance]_vars

\* the stop of a started resource has timed out: the record is FAILED and
\* getInstance still returns the instance
C29_Witness ==
  /\ last.op = "stopTimedOut"
  /\ recs[last.h].state = FAILED
  /\ has(last.id)
  /\ getInstance(last.id) \in Values

\* ------------------------------------------------------------------------
\* C30: the error of a record
\* ------------------------------------------------------------------------

\* the step about to be taken sets record h to FAILED
Fails(h) == \E n \in 1..Len(last'.trail) : last'.trail[n] = <<h, FAILED>>

\* the faults with which the operations of the step about to be taken on record h
\* ended: the fault of the call or settlement, or of the stops a shutdownAll issued
FaultsOf(h) ==
  {last'.reason}
    \cup (IF last'.op \in {"shutdownAll", "signal", "fault", "hookSettled"}
            THEN {sds'[last'.h].results[k].reason : k \in 1..Len(sds'[last'.h].results)}
            ELSE {})

\* C30: the error of a record is set or overwritten only in a step that sets the
\* record to FAILED, it then is the normalized fault of the operation that failed,
\* and it is never cleared: a record that is FAILED has an error, and a start or a
\* stop that succeeds later leaves the error of the last failure stored
C30_ErrorKept ==
  [][/\ (last'.op = "register" /\ last'.st = "fulfilled") => recs'[last'.h].error = Undefined
     /\ \A h \in Handles :
          Lives(h) =>
            /\ recs'[h].error # recs[h].error => Fails(h)
            /\ Fails(h) =>
                 /\ recs'[h].state = FAILED
                 /\ \E x \in FaultsOf(h) \ {Undefined} : recs'[h].error = StoredFor(x)
            /\ recs[h].error # Undefined => recs'[h].error # Undefined
            /\ recs'[h].state = FAILED =>
                 (recs'[h].error # Undefined /\ recs'[h].error.type = "Error")
            /\ (recs'[h].state # FAILED /\ recs[h].state = FAILED) =>
                 recs'[h].error = recs[h].error
            /\ (StartSucceeds(h) \/ (last'.op \in {"stopReturned", "stopResolved"} /\ last'.h = h)) =>
                 recs'[h].error = recs[h].error]_vars

\* a record that had failed was started again and stopped: it is STOPPED and the
\* error of the failure is still stored
C30_Witness ==
  /\ last.op = "stopResolved"
  /\ recs[last.h].state = STOPPED
  /\ recs[last.h].error # Undefined
  /\ recs[last.h].instance \in Values

\* ------------------------------------------------------------------------
\* C31: a start callback that does not settle
\* ------------------------------------------------------------------------

\* the step about to be taken settles the start of record h
StartSettles(h) ==
  /\ last'.op \in {"startReturned", "startResolved", "startRejected"}
  /\ last'.h = h

\* C31: while the start callback of a registered record has not settled, the id
\* stays in STARTING whatever the supervisor is asked to do: a start(id) and a
\* stop(id), the stop issued by shutdownAll included, warn and do nothing else, and
\* no operation of the supervisor brings the id out of STARTING
C31_StartingForEver ==
  [][\A i \in Ids :
       (has(i) /\ getState(i) = STARTING /\ ~StartSettles(Lookup(i))) =>
         LET h == Lookup(i) IN
         /\ RegisteredNext(h)
         /\ recs'[h] = recs[h]
         /\ pend'[h].start = pend[h].start
         /\ pend'[h].stop = pend[h].stop
         /\ \A n \in 1..Len(last'.invoked) : last'.invoked[n][2] # h
         /\ \A n \in 1..Len(last'.trail) : last'.trail[n][1] # h
         /\ (last'.op \in {"start", "stop"} /\ last'.id = i) =>
              /\ last'.st = "fulfilled"
              /\ Len(last'.warns) = 1]_vars

\* ------------------------------------------------------------------------
\* C32: the stop callback settles after its stop has timed out
\* ------------------------------------------------------------------------

\* C32: when the callback of a timed out stop settles at last, nothing changes: the
\* state, the instance and the error of every record, the registry, what is awaited
\* and the shutdowns in progress are exactly what they were, no warning or error is
\* logged and nothing completes, also when the record has been started or stopped
\* again since the timeout
C32_LateSettlementIgnored ==
  [][last'.op = "abandonedSettled" =>
       /\ recs' = recs
       /\ resources' = resources
       /\ sds' = sds
       /\ exits' = exits
       /\ isShuttingDown' = isShuttingDown
       /\ \A h \in Handles : pend'[h] = [pend[h] EXCEPT !.abandoned = pend'[h].abandoned]
       /\ last'.warns = <<>> /\ last'.errs = <<>> /\ last'.logs = <<>>
       /\ last'.invoked = <<>> /\ last'.trail = <<>>]_vars

\* the abandoned callback of a timed out stop has settled after the record was
\* started again and is RUNNING
C32_Witness ==
  /\ last.op = "abandonedSettled"
  /\ recs[last.h].state = RUNNING
  /\ recs[last.h].instance # Null

\* ------------------------------------------------------------------------
\* C33: what unregister removes
\* ------------------------------------------------------------------------

\* C33: a record leaves the registry only in state IDLE, STOPPED or FAILED and with
\* no start or stop of it in flight, and a record that is out of the registry does
\* not become RUNNING, so that every RUNNING record is one shutdownAll finds
C33_RemovedAtRest ==
  [][\A h \in Handles :
       /\ (Registered(h) /\ ~RegisteredNext(h)) =>
            /\ recs'[h].state \in {IDLE, STOPPED, FAILED}
            /\ pend'[h].start = "none"
            /\ pend'[h].stop = "none"
       /\ (~Registered(h) /\ ~RegisteredNext(h) /\ pend[h] # NoPend) =>
            recs'[h].state # RUNNING]_vars

\* ------------------------------------------------------------------------
\* C34: which record unregister removes
\* ------------------------------------------------------------------------

\* C34: unregister removes the record it found under the id when it was called: a
\* stop that unregister awaited removes, when it settles, no other record than the
\* one it stopped, and a RUNNING record is never removed from the registry
C34_RemovesItsOwnRecord ==
  [][\A h \in Handles :
       (Registered(h) /\ ~RegisteredNext(h)) =>
         /\ recs[h].state # RUNNING
         /\ \A g \in Handles : StopSettles(g) => g = h]_vars

\* ------------------------------------------------------------------------
\* C35: the state of the resources when a trigger exits
\* ------------------------------------------------------------------------

\* the step about to be taken is a handler of a trigger calling process.exit
TriggerExits == last'.op = "shutdownAllReturned" /\ Len(exits') = Len(exits) + 1

\* C35: when the handler of a signal or of a fault calls process.exit, no registered
\* resource is STARTING, RUNNING or STOPPING
C35_ExitAtRest ==
  [][TriggerExits =>
       \A h \in Handles :
         RegisteredNext(h) => recs'[h].state \notin {STARTING, RUNNING, STOPPING}]_vars

\* ------------------------------------------------------------------------
\* C36: one shutdown for both triggers
\* ------------------------------------------------------------------------

\* the shutdowns the handlers of the triggers have begun, each up to its hook at least
TriggerRuns == {k \in 1..Len(sds) : sds[k].kind \in {"signal", "fault"}}

\* C36: over all signals, uncaught exceptions and unhandled rejections the handlers
\* of one supervisor begin at most one shutdown and call process.exit at most once
C36_OneShutdown ==
  /\ Cardinality(TriggerRuns) <= 1
  /\ Len(exits) <= 1

\* ------------------------------------------------------------------------
\* C37: the argument of the stop callback
\* ------------------------------------------------------------------------

\* C37: a stop callback is invoked with the instance of its record, and that
\* instance is a value a start callback of the record has returned, never null
C37_StopGetsInstance ==
  [][\A n \in 1..Len(last'.invoked) :
       last'.invoked[n][1] = "stop" =>
         /\ last'.invoked[n][3] = recs[last'.invoked[n][2]].instance
         /\ last'.invoked[n][3] \in env.values]_vars

\* ------------------------------------------------------------------------
\* C38: callbacks of one record running at the same time
\* ------------------------------------------------------------------------

\* the callbacks of record h that have been invoked and have not settled: the start
\* callback awaited, the stop callback awaited, and the stop callbacks whose stop has
\* timed out
Executing(h) ==
  (IF pend[h].start = "promise" THEN 1 ELSE 0)
    + (IF pend[h].stop = "promise" THEN 1 ELSE 0)
    + pend[h].abandoned

\* C38 as claimed: at no time are two callbacks of one record executing, the stop
\* callbacks abandoned by a timeout included
C38_NoOverlap == \A h \in Handles : Executing(h) <= 1

\* C38: at no time are two callbacks of one record awaited: while the start of a
\* record is in flight no stop of it is, and at most one callback of the record that
\* is executing has not been abandoned by a timeout
C38_NoAwaitedOverlap ==
  \A h \in Handles :
    /\ ~(pend[h].start # "none" /\ pend[h].stop # "none")
    /\ Executing(h) - pend[h].abandoned <= 1

\* the start callback of a record is executing while a stop callback of the record,
\* abandoned by the timeout, has not settled
C38_Witness ==
  \E h \in Handles :
    /\ pend[h].abandoned > 0
    /\ pend[h].start = "promise"
    /\ recs[h].state = STARTING

\* ------------------------------------------------------------------------
\* C39: a received signal ends the process
\* ------------------------------------------------------------------------

\* the handler of a signal has passed the latch and is done with its hook, or its
\* hook has returned and the await of it is about to resume
SignalUnderWay ==
  \E k \in 1..Len(sds) :
    /\ sds[k].kind = "signal"
    /\ sds[k].phase = "stops" \/ sds[k].hook = "returned"

\* C39: once the handler of a configured signal has run and its hook, if any, has
\* settled, process.exit is eventually called, whatever the states of the resources
\* and even when no stop callback ever settles, given that armed timers fire
C39_SignalExits == SignalUnderWay ~> ~Alive

\* the handler of a signal has called process.exit after the timer of a stop it
\* awaited fired, the stop callback not having settled
C39_Witness ==
  /\ ~Alive
  /\ last.op = "shutdownAllReturned"
  /\ last.id = "signal"
  /\ \E h \in Handles : pend[h].abandoned > 0 /\ recs[h].state = FAILED

\* ------------------------------------------------------------------------
\* C40: what the result false of shutdownAll means
\* ------------------------------------------------------------------------

\* C40: when shutdownAll completes with the result false, every record it found in
\* the registry when it was called is IDLE or STOPPED
C40_FalseMeansClean ==
  [][\A k \in 1..Len(sds) :
       (last'.op = "shutdownAllReturned" /\ last'.h = k /\ last'.ret = "false") =>
         \A j \in 1..Len(sds[k].ids) :
           \A h \in Handles :
             (~Free(h) /\ recs[h].id = sds[k].ids[j]) =>
               recs'[h].state \in {IDLE, STOPPED}]_vars

====
